---- MODULE Spec2Model ----
(***************************************************************************)
(* A model of pkg/telnet of mackerel-7dtd: the 7 Days to Die console       *)
(* client (connect / login / exec / drain / close) and its text parsers    *)
(* (parsePlayerInfo, splitWithCommas, parseGameTime).                       *)
(*                                                                         *)
(* Go strings are modelled as sequences of one-character strings, so that  *)
(* strings.Contains, the regexp replacement, the comma splitter and        *)
(* fmt.Sscanf are computed character by character as the code does.        *)
(* Floating-point values are held in hundredths (1.5 is 150); the inputs   *)
(* of the model carry at most two fractional digits and none of the        *)
(* NaN / Inf / hexadecimal / exponent / underscore forms Sscanf accepts.   *)
(***************************************************************************)
EXTENDS Integers, Sequences, FiniteSets, TLC

\* ------------------------------------------------------------------------
\* Strings
\* ------------------------------------------------------------------------

DigitChars == <<"0", "1", "2", "3", "4", "5", "6", "7", "8", "9">>

Digits == {DigitChars[i] : i \in 1..Len(DigitChars)}

DigitVal(c) == (CHOOSE i \in 1..Len(DigitChars) : DigitChars[i] = c) - 1

\* unicode.IsSpace, on the characters of the model
IsSpace(c) == c \in {" ", "\t", "\n", "\r"}

Drop(s, n) == SubSeq(s, n + 1, Len(s))

HasPrefix(s, p) == Len(s) >= Len(p) /\ SubSeq(s, 1, Len(p)) = p

Contains(s, sub) == \E i \in 0..(Len(s) - Len(sub)) : SubSeq(s, i + 1, i + Len(sub)) = sub

\* position of the first occurrence of character c in s, 0 when there is none
IndexOf(s, c) ==
  IF \E i \in 1..Len(s) : s[i] = c
  THEN CHOOSE i \in 1..Len(s) : s[i] = c /\ \A j \in 1..(i - 1) : s[j] # c
  ELSE 0

RECURSIVE TrimLeft(_)
TrimLeft(s) == IF s # <<>> /\ IsSpace(Head(s)) THEN TrimLeft(Tail(s)) ELSE s

RECURSIVE TrimRight(_)
TrimRight(s) ==
  IF s # <<>> /\ IsSpace(s[Len(s)]) THEN TrimRight(SubSeq(s, 1, Len(s) - 1)) ELSE s

TrimSpace(s) == TrimRight(TrimLeft(s))

\* strings.SplitN(part, "=", 2)
SplitN2EmptyValue(part) ==
  LET i == IndexOf(part, "=")
  IN  IF i = 0 THEN <<part, <<>>>> ELSE <<SubSeq(part, 1, i - 1), Drop(part, i)>>

SplitN2(part) ==
  LET i == IndexOf(part, "=")
  IN  IF i = 0 THEN <<part>> ELSE <<SubSeq(part, 1, i - 1), Drop(part, i)>>

\* strings.Split(s, ",")
RECURSIVE SplitComma(_)
SplitComma(s) ==
  LET i == IndexOf(s, ",")
  IN  IF i = 0 THEN <<s>> ELSE <<SubSeq(s, 1, i - 1)>> \o SplitComma(Drop(s, i))

RECURSIVE Join(_, _)
Join(parts, sep) ==
  IF parts = <<>> THEN <<>>
  ELSE IF Len(parts) = 1 THEN parts[1]
  ELSE parts[1] \o sep \o Join(Tail(parts), sep)

\* ------------------------------------------------------------------------
\* fmt.Sscanf, for the three formats the package uses
\* ------------------------------------------------------------------------

\* number of leading characters of s that lie in set
RECURSIVE SpanLen(_, _)
SpanLen(s, set) == IF s # <<>> /\ Head(s) \in set THEN 1 + SpanLen(Tail(s), set) ELSE 0

RECURSIVE DigitsVal(_, _)
DigitsVal(s, acc) == IF s = <<>> THEN acc ELSE DigitsVal(Tail(s), 10 * acc + DigitVal(Head(s)))

\* The state of a scan: whether it is still going, the input left, and the
\* operands stored so far (an operand is stored as soon as it is scanned).
ScanStart(s) == [ok |-> TRUE, rest |-> s, vals |-> <<>>]

ScanFail(st) == [st EXCEPT !.ok = FALSE]

\* ss.SkipSpace with nlIsSpace false: a newline in the input is an error
RECURSIVE SkipSpace(_)
SkipSpace(st) ==
  IF ~st.ok \/ st.rest = <<>> THEN st
  ELSE IF Head(st.rest) = "\r" /\ Len(st.rest) >= 2 /\ st.rest[2] = "\n"
       THEN SkipSpace([st EXCEPT !.rest = Tail(@)])
  ELSE IF Head(st.rest) = "\n" THEN ScanFail(st)
  ELSE IF IsSpace(Head(st.rest)) THEN SkipSpace([st EXCEPT !.rest = Tail(@)])
  ELSE st

\* ss.accept(sign)
SignLen(s) == IF s # <<>> /\ Head(s) \in {"+", "-"} THEN 1 ELSE 0

Signed(s, mag) == IF s # <<>> /\ Head(s) = "-" THEN 0 - mag ELSE mag

\* the integer token u (after the sign) of n digits
IntToken(st, u, n) ==
  IF st.rest = <<>> \/ n = 0 THEN ScanFail(st)
  ELSE [ok |-> TRUE, rest |-> Drop(u, n),
        vals |-> Append(st.vals, Signed(st.rest, DigitsVal(SubSeq(u, 1, n), 0)))]

IntDigits(st, u) == IntToken(st, u, SpanLen(u, Digits))

IntSigned(st) == IF ~st.ok THEN st ELSE IntDigits(st, Drop(st.rest, SignLen(st.rest)))

\* the verb %d: skip spaces, an optional sign, then at least one digit
ScanInt(st) == IntSigned(SkipSpace(st))

\* the fraction of a float token: v is the input after the integer digits
DotLen(v) == IF v # <<>> /\ Head(v) = "." THEN 1 ELSE 0

FracLen(v) == IF v # <<>> /\ Head(v) = "." THEN SpanLen(Tail(v), Digits) ELSE 0

Hundredths(v, m) ==
  IF m = 0 THEN 0
  ELSE IF m = 1 THEN 10 * DigitVal(v[2])
  ELSE 10 * DigitVal(v[2]) + DigitVal(v[3])

\* the float token: n integer digits of u, then v with m fraction digits
FloatToken(st, u, n, v, m) ==
  IF st.rest = <<>> \/ n + m = 0 THEN ScanFail(st)
  ELSE [ok |-> TRUE, rest |-> Drop(v, DotLen(v) + m),
        vals |-> Append(st.vals,
                        Signed(st.rest, 100 * DigitsVal(SubSeq(u, 1, n), 0) + Hundredths(v, m)))]

FloatFrac(st, u, n) == FloatToken(st, u, n, Drop(u, n), FracLen(Drop(u, n)))

FloatDigits(st, u) == FloatFrac(st, u, SpanLen(u, Digits))

FloatSigned(st) == IF ~st.ok THEN st ELSE FloatDigits(st, Drop(st.rest, SignLen(st.rest)))

\* the verb %f: skip spaces, an optional sign, digits, an optional fraction;
\* the value in hundredths
ScanFloat(st) == FloatSigned(SkipSpace(st))

\* a literal character of the format: it must be the next input character
ScanLit(st, c) ==
  IF st.ok /\ st.rest # <<>> /\ Head(st.rest) = c THEN [st EXCEPT !.rest = Tail(@)]
  ELSE ScanFail(st)

\* a space of the format: one or more spaces of the input, or its end
ScanFmtSpaceOptional(st) ==
  IF ~st.ok \/ st.rest = <<>> THEN st
  ELSE [st EXCEPT !.rest = Drop(@, SpanLen(@, {" ", "\t", "\r"}))]

ScanFmtSpace(st) ==
  IF ~st.ok \/ st.rest = <<>> THEN st
  ELSE IF ~IsSpace(Head(st.rest)) \/ Head(st.rest) = "\n" THEN ScanFail(st)
  ELSE [st EXCEPT !.rest = Drop(@, SpanLen(@, {" ", "\t", "\r"}))]

\* the operands after a scan: those stored, the others as they were
Stored(st, old) == [i \in 1..Len(old) |-> IF i <= Len(st.vals) THEN st.vals[i] ELSE old[i]]

\* fmt.Sscanf(value, "%d", &x): the new value of x
SscanfD(value, old) == Stored(ScanInt(ScanStart(value)), <<old>>)[1]

\* fmt.Sscanf(value, "(%f, %f, %f)", &X, &Y, &Z): the new <<X, Y, Z>>
ScanPos(value) ==
  ScanLit(ScanFloat(ScanFmtSpace(ScanLit(ScanFloat(ScanFmtSpace(ScanLit(
    ScanFloat(ScanLit(ScanStart(value), "(")), ","))), ","))), ")")

SscanfPos(value, old) == Stored(ScanPos(value), old)

\* fmt.Sscanf(part, "Day %d", &Days)
SscanfDay(part) ==
  ScanInt(ScanFmtSpace(ScanLit(ScanLit(ScanLit(ScanStart(part), "D"), "a"), "y")))

\* fmt.Sscanf(part, "%d:%d", &Hours, &Minutes)
SscanfHM(part) == ScanInt(ScanLit(ScanInt(ScanStart(part)), ":"))

\* ------------------------------------------------------------------------
\* The parsers of pkg/telnet
\* ------------------------------------------------------------------------

\* the zero value of Player
ZeroPlayer ==
  [ID |-> 0, Name |-> <<>>, Position |-> <<0, 0, 0>>, Health |-> 0, Deaths |-> 0,
   Zombies |-> 0, Players |-> 0, Score |-> 0, Level |-> 0, PltfmID |-> <<>>,
   CrossID |-> <<>>, IP |-> <<>>, Ping |-> 0]

\* the zero value of GameTime
ZeroGameTime == [Days |-> 0, Hours |-> 0, Minutes |-> 0]

\* a match of the regular expression trimRe1, `[0-9]\. `, at the head of s
trimRe1(s) == Len(s) >= 3 /\ s[1] \in Digits /\ s[2] = "." /\ s[3] = " "

\* the character at position i of s lies in a match of trimRe1 (a match is
\* three characters long)
inMatch(s, i) ==
  \E j \in {i - 2, i - 1, i} : j >= 1 /\ trimRe1(SubSeq(s, j, Len(s)))

\* the positions of s outside every match, in order
unmatched(s) ==
  LET outside(i) == ~inMatch(s, i)
  IN  SelectSeq([i \in 1..Len(s) |-> i], outside)

\* trimRe1.ReplaceAllString(line, ""): every match is removed. Two matches
\* of this expression cannot overlap (the second and third characters of a
\* match are no digits), so the leftmost-first matches are all its matches.
trimRe1ReplaceAll(s) ==
  LET kept == unmatched(s)
  IN  [k \in 1..Len(kept) |-> s[kept[k]]]

\* one byte that is not valid UTF-8, as a line read from a connection or a
\* command's output may hold
BadByte == "xFF"

\* the character U+FFFD
ReplacementChar == "uFFFD"

\* for _, char := range line: the characters the loop sees and writes to the
\* buffer; a byte that is not UTF-8 is seen as U+FFFD
runesOf(line) ==
  [i \in 1..Len(line) |-> IF line[i] = BadByte THEN ReplacementChar ELSE line[i]]

\* parts = append(parts, buffer.String()) after the loop
LastPartIfNonEmpty(parts, buffer) == IF buffer = <<>> THEN parts ELSE Append(parts, buffer)

lastPart(parts, buffer) == Append(parts, buffer)

\* the inside flag of splitWithCommas after the character ch
InsideNeverCleared(inside, ch) == inside \/ ch = "("

insideAfter(inside, ch) ==
  IF ch = "(" THEN TRUE ELSE IF ch = ")" THEN FALSE ELSE inside

\* the first position from i on that holds a comma or a parenthesis, past
\* the end of s when there is none. At every other character a turn of the
\* loop only adds the character to the buffer.
nextMark(s, i) ==
  IF \E j \in i..Len(s) : s[j] \in {",", "(", ")"}
  THEN CHOOSE j \in i..Len(s) :
         s[j] \in {",", "(", ")"} /\ \A k \in i..(j - 1) : s[k] \notin {",", "(", ")"}
  ELSE Len(s) + 1

\* the loop of splitWithCommas over the characters of the line, from the
\* comma or parenthesis at position j on; the buffer holds the characters
\* from position start up to it
RECURSIVE splitLoop(_, _, _, _, _)
splitLoop(s, j, start, parts, inside) ==
  IF j > Len(s) THEN lastPart(parts, SubSeq(s, start, Len(s)))
  ELSE IF ~inside /\ s[j] = ","
       THEN splitLoop(s, nextMark(s, j + 1), j + 1,
                      Append(parts, SubSeq(s, start, j - 1)), inside)
       ELSE splitLoop(s, nextMark(s, j + 1), start, parts, insideAfter(inside, s[j]))

splitWithCommas(line) ==
  LET parts == splitLoop(runesOf(line), nextMark(line, 1), 1, <<>>, FALSE)
  IN  [i \in 1..Len(parts) |-> TrimSpace(parts[i])]

\* the switch has no default case: a key it does not list changes nothing
UnknownKeyAsID(player, key, value) == [player EXCEPT !.ID = SscanfD(value, @)]

unknownKey(player, key, value) == player

\* the switch on key of parsePlayerInfo
applyField(player, key, value) ==
  IF key = <<"i", "d">> THEN [player EXCEPT !.ID = SscanfD(value, @)]
  ELSE IF key = <<"p", "o", "s">> THEN [player EXCEPT !.Position = SscanfPos(value, @)]
  ELSE IF key = <<"h", "e", "a", "l", "t", "h">> THEN [player EXCEPT !.Health = SscanfD(value, @)]
  ELSE IF key = <<"d", "e", "a", "t", "h", "s">> THEN [player EXCEPT !.Deaths = SscanfD(value, @)]
  ELSE IF key = <<"z", "o", "m", "b", "i", "e", "s">> THEN [player EXCEPT !.Zombies = SscanfD(value, @)]
  ELSE IF key = <<"p", "l", "a", "y", "e", "r", "s">> THEN [player EXCEPT !.Players = SscanfD(value, @)]
  ELSE IF key = <<"s", "c", "o", "r", "e">> THEN [player EXCEPT !.Score = SscanfD(value, @)]
  ELSE IF key = <<"l", "e", "v", "e", "l">> THEN [player EXCEPT !.Level = SscanfD(value, @)]
  ELSE IF key = <<"p", "l", "t", "f", "m", "i", "d">> THEN [player EXCEPT !.PltfmID = value]
  ELSE IF key = <<"c", "r", "o", "s", "s", "i", "d">> THEN [player EXCEPT !.CrossID = value]
  ELSE IF key = <<"i", "p">> THEN [player EXCEPT !.IP = value]
  ELSE IF key = <<"p", "i", "n", "g">> THEN [player EXCEPT !.Ping = SscanfD(value, @)]
  ELSE unknownKey(player, key, value)

\* the test `i == 1` of the loop: the field taken as the name is the second
\* one (the loop of the model counts the fields from 1)
IsFirstField(i) == i = 1

isNameField(i) == i = 2

\* the loop of parsePlayerInfo over the fields; i counts from 1
RECURSIVE parseFields(_, _, _)
parseFields(parts, i, player) ==
  IF i > Len(parts) THEN [player |-> player, err |-> <<>>]
  ELSE IF isNameField(i) THEN parseFields(parts, i + 1, [player EXCEPT !.Name = parts[i]])
  ELSE LET kv == SplitN2(parts[i])
       IN  IF Len(kv) # 2
           THEN [player |-> player, err |-> <<"i", "n", "v", "a", "l", "i", "d", " ", "k", "e", "y", "-", "v", "a", "l", "u", "e", " ", "p", "a", "i", "r", ":", " ", "'">> \o parts[i] \o <<"'">>]
           ELSE parseFields(parts, i + 1,
                            applyField(player, TrimSpace(kv[1]), TrimSpace(kv[2])))

\* parsePlayerInfo(line): the Player and the error (<<>> is nil)
parsePlayerInfo(line) ==
  parseFields(splitWithCommas(trimRe1ReplaceAll(line)), 1, ZeroPlayer)

\* the GameTime after the two scans of parseGameTime: the operands stored
gameTimeOf(d, hm) ==
  [Days    |-> Stored(d, <<0>>)[1],
   Hours   |-> Stored(hm, <<0, 0>>)[1],
   Minutes |-> Stored(hm, <<0, 0>>)[2]]

\* parseGameTime(timeStr): the GameTime and the error (<<>> is nil)
parseGameTime(timeStr) ==
  LET parts == SplitComma(timeStr)
  IN  IF Len(parts) # 2
      THEN [gameTime |-> ZeroGameTime, err |-> <<"i", "n", "v", "a", "l", "i", "d", " ", "t", "i", "m", "e", " ", "f", "o", "r", "m", "a", "t", ":", " ">> \o timeStr]
      ELSE IF ~SscanfDay(parts[1]).ok
      THEN [gameTime |-> gameTimeOf(SscanfDay(parts[1]), ScanStart(<<>>)),
            err |-> <<"f", "a", "i", "l", "e", "d", " ", "t", "o", " ", "p", "a", "r", "s", "e", " ", "d", "a", "y", "s">>]
      ELSE IF ~SscanfHM(parts[2]).ok
      THEN [gameTime |-> gameTimeOf(SscanfDay(parts[1]), SscanfHM(parts[2])),
            err |-> <<"f", "a", "i", "l", "e", "d", " ", "t", "o", " ", "p", "a", "r", "s", "e", " ", "h", "o", "u", "r", "s", " ", "a", "n", "d", " ", "m", "i", "n", "u", "t", "e", "s">>]
      ELSE [gameTime |-> gameTimeOf(SscanfDay(parts[1]), SscanfHM(parts[2])),
            err |-> <<>>]

\* ------------------------------------------------------------------------
\* apiserver7dtd: the result of `docker compose up -d`, from its output
\* ------------------------------------------------------------------------

UpperChars ==
  <<"A", "B", "C", "D", "E", "F", "G", "H", "I", "J", "K", "L", "M",
    "N", "O", "P", "Q", "R", "S", "T", "U", "V", "W", "X", "Y", "Z">>

LowerChars ==
  <<"a", "b", "c", "d", "e", "f", "g", "h", "i", "j", "k", "l", "m",
    "n", "o", "p", "q", "r", "s", "t", "u", "v", "w", "x", "y", "z">>

\* the characters of the class \w of a regular expression
WordChars ==
  {UpperChars[i] : i \in 1..Len(UpperChars)} \cup {LowerChars[i] : i \in 1..Len(LowerChars)}
    \cup Digits \cup {"_"}

\* the flag (?i): letters are compared without their case
FoldCase(c) ==
  IF \E i \in 1..Len(UpperChars) : UpperChars[i] = c
  THEN LowerChars[CHOOSE i \in 1..Len(UpperChars) : UpperChars[i] = c]
  ELSE c

\* the assertion \b at both ends of the characters i..j of s, which begin and
\* end with a word character: no word character just before or just after
wordBoundaries(s, i, j) ==
  /\ i = 1 \/ s[i - 1] \notin WordChars
  /\ j = Len(s) \/ s[j + 1] \notin WordChars

\* a match of (?i)\bword\b somewhere in s; word is given in lower case
matchWord(s, word) ==
  \E i \in 1..(Len(s) - Len(word) + 1) :
    /\ \A k \in 1..Len(word) : FoldCase(s[i + k - 1]) = word[k]
    /\ wordBoundaries(s, i, i + Len(word) - 1)

\* a match of (?i)started somewhere in s, with no \b
MatchStartedAnywhere(l) ==
  \E i \in 1..(Len(l) - 6) : \A k \in 1..7 : FoldCase(l[i + k - 1]) = <<"s", "t", "a", "r", "t", "e", "d">>[k]

reWordStarted(l) == matchWord(l, <<"s", "t", "a", "r", "t", "e", "d">>)

reWordRunning(l) == matchWord(l, <<"r", "u", "n", "n", "i", "n", "g">>)

isWarningHeader(line) == HasPrefix(TrimSpace(line), <<"t", "i", "m", "e", "=">>)

\* strings.Split(output, "\n")
RECURSIVE SplitLines(_)
SplitLines(s) ==
  IF IndexOf(s, "\n") = 0 THEN <<s>>
  ELSE <<SubSeq(s, 1, IndexOf(s, "\n") - 1)>> \o SplitLines(Drop(s, IndexOf(s, "\n")))

\* the lines of the output detectStartStatus looks at: trimmed, the blank
\* ones and the warnings left out
effectiveLines(output) ==
  LET counted(l) == l # <<>> /\ ~isWarningHeader(l)
  IN  SelectSeq([i \in 1..Len(SplitLines(output)) |-> TrimSpace(SplitLines(output)[i])],
                counted)

startedLines(output) == SelectSeq(effectiveLines(output), reWordStarted)

runningLines(output) ==
  LET runningOnly(l) == ~reWordStarted(l) /\ reWordRunning(l)
  IN  SelectSeq(effectiveLines(output), runningOnly)

\* detectStartStatus(output): the status and the notes
detectStartStatus(output) ==
  IF TrimSpace(output) = <<>> THEN [status |-> "starting", notes |-> <<>>]
  ELSE IF startedLines(output) # <<>>
       THEN [status |-> "started", notes |-> Join(startedLines(output), <<"\n">>)]
  ELSE IF runningLines(output) # <<>>
       THEN [status |-> "already_running", notes |-> Join(runningLines(output), <<"\n">>)]
  ELSE [status |-> "starting", notes |-> <<>>]

\* a match of (?i)stopped somewhere in l, with no \b
MatchStoppedAnywhere(l) ==
  \E i \in 1..(Len(l) - 6) : \A k \in 1..7 : FoldCase(l[i + k - 1]) = <<"s", "t", "o", "p", "p", "e", "d">>[k]

reWordStopped(l) == matchWord(l, <<"s", "t", "o", "p", "p", "e", "d">>)

reWordRemoved(l) == matchWord(l, <<"r", "e", "m", "o", "v", "e", "d">>)

stoppedOrRemoved(output) ==
  LET either(l) == reWordRemoved(l) \/ reWordStopped(l)
  IN  SelectSeq(effectiveLines(output), either)

\* detectStopStatus(output): the status and the notes
detectStopStatus(output) ==
  IF TrimSpace(output) = <<>> THEN [status |-> "already_stopped", notes |-> <<>>]
  ELSE IF stoppedOrRemoved(output) # <<>>
       THEN [status |-> "stopped", notes |-> Join(stoppedOrRemoved(output), <<"\n">>)]
  ELSE IF effectiveLines(output) = <<>>
       THEN [status |-> "already_stopped", notes |-> <<>>]
  ELSE [status |-> "stopping", notes |-> <<>>]

\* ------------------------------------------------------------------------
\* apiserver7dtd: the state of the service, from the output of
\* `docker compose ps`
\* ------------------------------------------------------------------------

upWord(l) == matchWord(l, <<"u", "p">>)

exitedWord(l) == matchWord(l, <<"e", "x", "i", "t", "e", "d">>)

pausedWord(l) == matchWord(l, <<"p", "a", "u", "s", "e", "d">>)

restartingWord(l) == matchWord(l, <<"r", "e", "s", "t", "a", "r", "t", "i", "n", "g">>)

\* the trimmed lines of the output that are not blank, are neither a warning
\* nor the header, and contain the service name
serviceLines(output, service) ==
  LET ofService(line) ==
        /\ line # <<>>
        /\ ~HasPrefix(line, <<"t", "i", "m", "e", "=">>) /\ ~HasPrefix(line, <<"N", "A", "M", "E", " ">>)
        /\ Contains(line, service)
  IN  SelectSeq([i \in 1..Len(SplitLines(output)) |-> TrimSpace(SplitLines(output)[i])],
                ofService)

\* the switch on the line found
stateOfLine(line) ==
  IF upWord(line) THEN "running"
  ELSE IF restartingWord(line) THEN "starting"
  ELSE IF pausedWord(line) THEN "stopped"
  ELSE IF exitedWord(line) THEN "stopped"
  ELSE "unknown"

\* the last of the lines, in place of the first
LastLine(lines) == lines[Len(lines)]

\* the loop returns at the first line of the service
firstLine(lines) == lines[1]

\* parseComposePS(output, service): the state and the notes
parseComposePS(output, service) ==
  IF TrimSpace(output) = <<>> \/ TrimSpace(service) = <<>>
  THEN [state |-> "unknown", notes |-> <<>>]
  ELSE IF serviceLines(output, service) = <<>>
       THEN [state |-> "unknown", notes |-> <<>>]
  ELSE [state |-> stateOfLine(firstLine(serviceLines(output, service))),
        notes |-> firstLine(serviceLines(output, service))]

\* ------------------------------------------------------------------------
\* apiserver7dtd: the IP address of a player in the summary
\* ------------------------------------------------------------------------

\* strings.Split(ip, ".")
RECURSIVE SplitDots(_)
SplitDots(s) ==
  IF IndexOf(s, ".") = 0 THEN <<s>>
  ELSE <<SubSeq(s, 1, IndexOf(s, ".") - 1)>> \o SplitDots(Drop(s, IndexOf(s, ".")))

\* maskIP(ip)
maskIP(ip) ==
  IF ip = <<>> THEN <<>>
  ELSE IF Len(SplitDots(ip)) = 4
       THEN SplitDots(ip)[1] \o <<".">> \o SplitDots(ip)[2] \o <<".">> \o SplitDots(ip)[3] \o <<".", "*">>
  ELSE <<"*", "*", "*">>

\* qBool(r, key, def) for the value s of the parameter, empty when absent
qBool(s, def) ==
  IF s = <<>> THEN [value |-> def, err |-> <<>>]
  ELSE IF s \in {<<"1">>, <<"t", "r", "u", "e">>, <<"t">>, <<"y", "e", "s">>, <<"y">>, <<"o", "n">>} THEN [value |-> TRUE, err |-> <<>>]
  ELSE IF s \in {<<"0">>, <<"f", "a", "l", "s", "e">>, <<"f">>, <<"n", "o">>, <<"n">>, <<"o", "f", "f">>} THEN [value |-> FALSE, err |-> <<>>]
  ELSE [value |-> FALSE, err |-> <<"i", "n", "v", "a", "l", "i", "d", " ", "b", "o", "o", "l">>]

\* the ip of a player's item in the summary, for the value of maskIPs
summaryIP(ip, maskIPs) == IF maskIPs /\ ip # <<>> THEN maskIP(ip) ELSE ip

\* ------------------------------------------------------------------------
\* apiserver7dtd: writeJSON's encoding of a string (encoding/json, with
\* SetEscapeHTML left on)
\* ------------------------------------------------------------------------

\* what the encoder writes for one character of a string
jsonEscape(c) ==
  IF c = "\"" THEN <<"\\", "\"">>
  ELSE IF c = "\\" THEN <<"\\", "\\">>
  ELSE IF c = "\n" THEN <<"\\", "n">>
  ELSE IF c = "\r" THEN <<"\\", "r">>
  ELSE IF c = "\t" THEN <<"\\", "t">>
  ELSE IF c = "<" THEN <<"\\", "u", "0", "0", "3", "c">>
  ELSE IF c = ">" THEN <<"\\", "u", "0", "0", "3", "e">>
  ELSE IF c = "&" THEN <<"\\", "u", "0", "0", "2", "6">>
  ELSE IF c = BadByte THEN <<"\\", "u", "f", "f", "f", "d">>
  ELSE <<c>>

\* the string literal the encoder writes for s
jsonString(s) == <<"\"">> \o Join([i \in 1..Len(s) |-> jsonEscape(s[i])], <<>>) \o <<"\"">>

\* an ExecResult with no output, in place of the encoded one
ExecWithoutOutput(res) ==
  [Command |-> res.Command, ExitCode |-> res.ExitCode, Output |-> jsonString(<<>>)]

\* an ExecResult as the encoder writes it: the exit code as a number, the
\* output as a string literal
jsonExec(res) ==
  [Command |-> res.Command, ExitCode |-> res.ExitCode, Output |-> jsonString(res.Output)]

\* ------------------------------------------------------------------------
\* The lines a console server sends
\* ------------------------------------------------------------------------

\* Every line ends with the newline ReadString('\n') returns with it.
Lines ==
  [banner  |-> <<"P", "l", "e", "a", "s", "e", " ", "e", "n", "t", "e", "r", " ", "p", "a", "s", "s", "w", "o", "r", "d", ":", "\n">>,
   loginOK |-> <<"L", "o", "g", "o", "n", " ", "s", "u", "c", "c", "e", "s", "s", "f", "u", "l", ".", "\n">>,
   loginNo |-> <<"P", "a", "s", "s", "w", "o", "r", "d", " ", "i", "n", "c", "o", "r", "r", "e", "c", "t", ",", " ", "p", "l", "e", "a", "s", "e", " ", "e", "n", "t", "e", "r", " ", "p", "a", "s", "s", "w", "o", "r", "d", ":", "\n">>,
   echoLp  |-> <<"1", "7", "4", "4", "6", ".", "4", "0", "8", " ", "I", "N", "F", " ", "E", "x", "e", "c", "u", "t", "i", "n", "g", " ", "c", "o", "m", "m", "a", "n", "d", " ", "'", "l", "p", "'", " ", "b", "y", " ", "T", "e", "l", "n", "e", "t", " ", "f", "r", "o", "m", " ", "1", "0", ".", "8", ".", "0", ".", "1", ":", "5", "2", "5", "9", "4", "\n">>,
   echoGt  |-> <<"1", "7", "4", "4", "6", ".", "4", "0", "8", " ", "I", "N", "F", " ", "E", "x", "e", "c", "u", "t", "i", "n", "g", " ", "c", "o", "m", "m", "a", "n", "d", " ", "'", "g", "t", "'", " ", "b", "y", " ", "T", "e", "l", "n", "e", "t", " ", "f", "r", "o", "m", " ", "1", "0", ".", "8", ".", "0", ".", "1", ":", "5", "2", "5", "9", "4", "\n">>,
   p1      |-> <<"0", ".", " ", "i", "d", "=", "1", "7", "1", ",", " ", "B", "o", "b", ",", " ", "p", "o", "s", "=", "(", "1", ".", "5", ",", " ", "-", "2", ".", "0", ",", " ", "3", ".", "2", "5", ")", ",", " ", "h", "e", "a", "l", "t", "h", "=", "8", "0", "\n">>,
   p2      |-> <<"1", ".", " ", "i", "d", "=", "1", "7", "2", ",", " ", "A", "l", ",", " ", "p", "o", "s", "=", "(", "0", ".", "5", ",", " ", "6", "1", ",", " ", "-", "7", ")", ",", " ", "h", "e", "a", "l", "t", "h", "=", "5", "5", ",", " ", "p", "i", "n", "g", "=", "1", "2", "\n">>,
   pBad    |-> <<"2", ".", " ", "i", "d", "=", "1", "7", "3", ",", " ", "C", "y", ",", " ", "b", "a", "d", "f", "i", "e", "l", "d", "\n">>,
   total   |-> <<"T", "o", "t", "a", "l", " ", "o", "f", " ", "2", " ", "i", "n", " ", "t", "h", "e", " ", "g", "a", "m", "e", "\n">>,
   day     |-> <<"D", "a", "y", " ", "1", "7", ",", " ", "1", "5", ":", "2", "7", "\n">>,
   dayBad  |-> <<"D", "a", "y", " ", "1", "7", ",", " ", "x", "x", "\n">>]

\* the lines a command's response may be made of
BodyLines == {"echoLp", "echoGt", "p1", "p2", "pBad", "total", "day", "dayBad"}

\* the longest response body of a script of Spec
MaxBody == 4

RECURSIVE SeqsUpTo(_, _)
SeqsUpTo(set, n) ==
  IF n = 0 THEN {<<>>}
  ELSE LET shorter == SeqsUpTo(set, n - 1)
       IN  shorter \cup {Append(s, x) : s \in {q \in shorter : Len(q) = n - 1}, x \in set}

\* what the server sends on one connection before it stops sending (the next
\* read then fails: end of stream, or the read deadline)
Scripts ==
  {<<>>, <<"banner">>, <<"banner", "loginNo">>}
    \cup {<<"banner", "loginOK">> \o b : b \in SeqsUpTo(BodyLines, MaxBody)}

\* the scripts of SpecConc, where two connections are open at a time
ConcScripts ==
  {<<"banner">>, <<"banner", "loginNo">>,
   <<"banner", "loginOK", "echoLp", "p1", "total">>,
   <<"banner", "loginOK", "echoLp", "pBad">>,
   <<"banner", "loginOK", "echoGt", "day">>,
   <<"banner", "loginOK", "echoGt", "total">>}

\* ------------------------------------------------------------------------
\* State
\* ------------------------------------------------------------------------

VARIABLES
  t,        \* the Telnet7days value: its fields conn, r, w (a connection or Nil)
  conns,    \* the connections dialed, by the caller that dialed them
  pc,       \* where each caller is in GetPlayers / GetTime
  op,       \* the command of each caller's invocation: "lp" or "gt"
  players,  \* GetPlayers' local slice, per caller
  ret,      \* what the invocation returned, per caller
  proc,     \* the process: "running", "exited" (log.Fatal) or "panicked"
  pin,      \* the input of a parser under SpecParse
  pfn,      \* the parser applied to it
  pout,     \* what the parser returned
  hreq,     \* the request the API server is handling: its route, or "none"
  hpc,      \* where the handler of that request is
  runs,     \* the calls of cmdRunner.Run made for the request, in order
  hres,     \* the handler's locals: the ExecResults and the error it holds
  resp,     \* what the handler wrote to its ResponseWriter
  probe,    \* serverSummaryHandler's three fetch goroutines and sourceProbes
  wg,       \* serverSummaryHandler's sync.WaitGroup counter
  served,   \* the number of requests accepted so far
  now,      \* the clock of the Discord bot's process, in units of ten seconds
  bot,      \* the discordbot value: its fields lastTopic and lastTopicAt
  loops,    \* the goroutines started for Ready events: where each one is
  edits     \* the last call of ChannelEditComplex made, and the last one that
            \* succeeded before it

vars == <<t, conns, pc, op, players, ret, proc, pin, pfn, pout,
          hreq, hpc, runs, hres, resp, probe, wg, served,
          now, bot, loops, edits>>

botVars == <<now, bot, loops, edits>>

apiVars == <<hreq, hpc, runs, hres, resp, probe, wg, served>>

sessionVars == <<t, conns, pc, op, players, ret, proc>>

parseVars == <<pin, pfn, pout>>

Nil == "nil"

AllCallers == {"c1", "c2"}

NoConn ==
  [dialed |-> FALSE, script |-> <<>>, pos |-> 0, log |-> <<>>, closed |-> 0,
   exitFailed |-> FALSE, closeFailed |-> FALSE]

NoRet == [done |-> FALSE, players |-> <<>>, gameTime |-> ZeroGameTime, err |-> <<>>]

NoOut ==
  [fields |-> <<>>, player |-> ZeroPlayer, gameTime |-> ZeroGameTime, err |-> <<>>,
   status |-> "", notes |-> <<>>]

InitSession ==
  /\ t = [conn |-> Nil, r |-> Nil, w |-> Nil]
  /\ conns = [c \in AllCallers |-> NoConn]
  /\ pc = [c \in AllCallers |-> "idle"]
  /\ op = [c \in AllCallers |-> "none"]
  /\ players = [c \in AllCallers |-> <<>>]
  /\ ret = [c \in AllCallers |-> NoRet]
  /\ proc = "running"

InitNoParse ==
  /\ pin = [kind |-> "none", line |-> <<>>, idx |-> <<>>, fields |-> <<>>]
  /\ pfn = "none"
  /\ pout = NoOut

\* the three upstream sources of GET /server/summary
Sources == {"serverstats", "player", "hostile"}

\* the zero ExecResult (its three time fields are left out)
NoExec == [Command |-> "", ExitCode |-> 0, Output |-> <<>>]

\* nothing written to the ResponseWriter yet; exec, execStop and execStart are
\* ExecResults as encoding/json writes them
NoResp ==
  [code |-> 0, errorCode |-> "", message |-> "", status |-> "", note |-> <<>>,
   exec |-> NoExec, execStop |-> NoExec, execStart |-> NoExec,
   partial |-> FALSE, sources |-> <<>>]

\* a fetch goroutine not started, with the zero sourceProbe; got is what
\* httpJSONGet returned: "none" yet, "ok" or "err"
NoProbe == [at |-> "idle", got |-> "none", OK |-> FALSE, ErrMsg |-> ""]

\* ------------------------------------------------------------------------
\* The Discord bot: its state
\* ------------------------------------------------------------------------

\* time.NewTicker(30 * time.Second), in units of ten seconds
Period == 3

\* 60*time.Second, the shortest time between two edits of the topic
MinStep == 6

\* the last instant of the clock of the model
MaxTime == 9

\* the last instant of the clock when Ready events are delivered again
MaxReadyTime == 3

\* the zero time.Time, which lastTopicAt holds until the first edit: an
\* instant further back than any time the clock measures
ZeroTime == 0 - 1000

\* the goroutines that run ready, one for each Ready event delivered
Loops == {"g1", "g2"}

NoLoop == [pc |-> "none", topic |-> "", ticking |-> FALSE, nextTick |-> 0, pending |-> FALSE]

\* no call of ChannelEditComplex
NoEdit == [topic |-> "", at |-> ZeroTime, ok |-> FALSE, by |-> "none"]

\* d := &discordbot{...} in main: lastTopic and lastTopicAt are zero values
InitBot ==
  /\ now = 0
  /\ bot = [lastTopic |-> "", lastTopicAt |-> ZeroTime]
  /\ loops = [g \in Loops |-> NoLoop]
  /\ edits = [last |-> NoEdit, okBefore |-> NoEdit]

InitNoApi ==
  /\ hreq = "none"
  /\ hpc = "idle"
  /\ runs = <<>>
  /\ hres = [res |-> NoExec, Stop |-> NoExec, Start |-> NoExec, err |-> Nil]
  /\ resp = NoResp
  /\ probe = [s \in Sources |-> NoProbe]
  /\ wg = 0
  /\ served = 0

\* ------------------------------------------------------------------------
\* The connection
\* ------------------------------------------------------------------------

\* a read of one line succeeds while the connection is open and the server
\* has a line left to send
CanRead(k) == conns[k].closed = 0 /\ conns[k].pos < Len(conns[k].script)

NextLine(k) == Lines[conns[k].script[conns[k].pos + 1]]

\* t.r.ReadString('\n') by caller c on connection k
AfterReadNoDeadline(k, c) ==
  IF conns[k].pos + 1 < Len(conns[k].script)
  THEN [conns EXCEPT ![k].pos = @ + 1, ![k].log = Append(@, <<"read", c>>)]
  ELSE conns

AfterRead(k, c) ==
  [conns EXCEPT ![k].pos = IF CanRead(k) THEN @ + 1 ELSE @,
                ![k].log = Append(@, <<IF CanRead(k) THEN "read" ELSE "readerr", c>>)]

\* fmt.Fprintf(t.w, ...); t.w.Flush() by caller c on connection k
AfterWrite(k, c, what) == [conns EXCEPT ![k].log = Append(@, <<what, c>>)]

\* a nil pointer dereference: the goroutine panics and the process dies
Panic(c) ==
  /\ proc' = "panicked"
  /\ UNCHANGED <<t, conns, pc, op, players, ret>>

\* return from GetPlayers / GetTime with no deferred close (connect failed)
Return(c, r) ==
  /\ ret' = [ret EXCEPT ![c] = [r EXCEPT !.done = TRUE]]
  /\ pc' = [pc EXCEPT ![c] = "returned"]

\* return from GetPlayers / GetTime after `defer t.close()`: the result is
\* fixed, then close runs
ReturnDeferred(c, r) ==
  /\ ret' = [ret EXCEPT ![c] = r]
  /\ pc' = [pc EXCEPT ![c] = "exit"]

ErrRead == <<"r", "e", "a", "d", " ", "f", "a", "i", "l", "e", "d">>

\* ------------------------------------------------------------------------
\* connect
\* ------------------------------------------------------------------------

\* a caller invokes GetPlayers ("lp") or GetTime ("gt")
Call(c) ==
  /\ proc = "running" /\ pc[c] = "idle"
  /\ \E o \in {"lp", "gt"} : op' = [op EXCEPT ![c] = o]
  /\ pc' = [pc EXCEPT ![c] = "dial"]
  /\ UNCHANGED <<t, conns, players, ret, proc, parseVars, apiVars, botVars>>

\* t.conn, err = net.DialTimeout(...): the dial fails and connect returns
DialFail(c) ==
  /\ proc = "running" /\ pc[c] = "dial"
  /\ t' = [t EXCEPT !.conn = Nil]
  /\ Return(c, [NoRet EXCEPT !.err = <<"F", "a", "i", "l", "e", "d", " ", "t", "o", " ", "c", "o", "n", "n", "e", "c", "t", " ", "t", "o", " ", "s", "e", "r", "v", "e", "r">>])
  /\ UNCHANGED <<conns, op, players, proc, parseVars, apiVars, botVars>>

\* the dial succeeds: a new connection, on which the server will send script
Dial(c, scripts) ==
  /\ proc = "running" /\ pc[c] = "dial"
  /\ \E s \in scripts : conns' = [conns EXCEPT ![c] = [NoConn EXCEPT !.dialed = TRUE, !.script = s]]
  /\ t' = [t EXCEPT !.conn = c]
  /\ pc' = [pc EXCEPT ![c] = "rw"]
  /\ UNCHANGED <<op, players, ret, proc, parseVars, apiVars, botVars>>

\* t.conn.SetReadDeadline(...); t.r = bufio.NewReader(t.conn); t.w = ...
MakeReaderWriter(c) ==
  /\ proc = "running" /\ pc[c] = "rw"
  /\ IF t.conn = Nil THEN Panic(c)
     ELSE /\ t' = [t EXCEPT !.r = t.conn, !.w = t.conn]
          /\ pc' = [pc EXCEPT ![c] = "banner"]
          /\ UNCHANGED <<conns, op, players, ret, proc>>
  /\ UNCHANGED <<parseVars, apiVars, botVars>>

\* _, err = t.r.ReadString('\n'): the banner
ReadBanner(c) ==
  /\ proc = "running" /\ pc[c] = "banner"
  /\ IF t.r = Nil THEN Panic(c)
     ELSE /\ conns' = AfterRead(t.r, c)
          /\ IF CanRead(t.r)
             THEN pc' = [pc EXCEPT ![c] = "pass"] /\ UNCHANGED ret
             ELSE Return(c, [NoRet EXCEPT !.err = ErrRead])
          /\ UNCHANGED <<t, op, players, proc>>
  /\ UNCHANGED <<parseVars, apiVars, botVars>>

\* fmt.Fprintf(t.w, "%s\n", t.TelnetPass); t.w.Flush()
WritePass(c) ==
  /\ proc = "running" /\ pc[c] = "pass"
  /\ IF t.w = Nil THEN Panic(c)
     ELSE /\ conns' = AfterWrite(t.w, c, "pass")
          /\ pc' = [pc EXCEPT ![c] = "login"]
          /\ UNCHANGED <<t, op, players, ret, proc>>
  /\ UNCHANGED <<parseVars, apiVars, botVars>>

\* strings.Contains(loginResp, "Logon successful.")
LoginUnchecked(loginResp) == TRUE

loginAccepted(loginResp) == Contains(loginResp, <<"L", "o", "g", "o", "n", " ", "s", "u", "c", "c", "e", "s", "s", "f", "u", "l", ".">>)

\* loginResp, err := t.r.ReadString('\n') and the check of the login
ReadLogin(c) ==
  /\ proc = "running" /\ pc[c] = "login"
  /\ IF t.r = Nil THEN Panic(c)
     ELSE /\ conns' = AfterRead(t.r, c)
          /\ IF ~CanRead(t.r)
             THEN Return(c, [NoRet EXCEPT !.err = ErrRead]) /\ UNCHANGED proc
             ELSE IF loginAccepted(NextLine(t.r))
                  THEN pc' = [pc EXCEPT ![c] = "cmd"] /\ UNCHANGED <<ret, proc>>
                  ELSE \* log.Fatal: the process exits, nothing returns
                       proc' = "exited" /\ UNCHANGED <<pc, ret>>
          /\ UNCHANGED <<t, op, players>>
  /\ UNCHANGED <<parseVars, apiVars, botVars>>

\* ------------------------------------------------------------------------
\* exec, GetPlayers, GetTime
\* ------------------------------------------------------------------------

\* fmt.Fprintf(t.w, "%s\n", cmd); t.w.Flush()
WriteCmd(c) ==
  /\ proc = "running" /\ pc[c] = "cmd"
  /\ IF t.w = Nil THEN Panic(c)
     ELSE /\ conns' = AfterWrite(t.w, c, op[c])
          /\ pc' = [pc EXCEPT ![c] = "echo"]
          /\ UNCHANGED <<t, op, players, ret, proc>>
  /\ UNCHANGED <<parseVars, apiVars, botVars>>

\* fmt.Sprintf("INF Executing command '%s' by Telnet", cmd)
EchoMarker(cmd) ==
  <<"I", "N", "F", " ", "E", "x", "e", "c", "u", "t", "i", "n", "g", " ", "c", "o", "m", "m", "a", "n", "d", " ", "'">> \o (IF cmd = "lp" THEN <<"l", "p">> ELSE <<"g", "t">>) \o <<"'", " ", "b", "y", " ", "T", "e", "l", "n", "e", "t">>

\* strings.Contains(line, fmt.Sprintf("INF Executing command '%s' by Telnet", cmd))
AnyEcho(line, cmd) == Contains(line, <<"I", "N", "F", " ", "E", "x", "e", "c", "u", "t", "i", "n", "g", " ", "c", "o", "m", "m", "a", "n", "d", " ", "'">>)

isEcho(line, cmd) == Contains(line, EchoMarker(cmd))

\* where exec goes on after a line that is not the echo: it reads again
ResendCommand == "cmd"

nextEchoTurn == "echo"

\* one turn of the loop of exec: read a line, leave the loop on the echo
ReadEcho(c) ==
  /\ proc = "running" /\ pc[c] = "echo"
  /\ IF t.r = Nil THEN Panic(c)
     ELSE /\ conns' = AfterRead(t.r, c)
          /\ IF ~CanRead(t.r)
             THEN ReturnDeferred(c, [NoRet EXCEPT !.err = ErrRead])
             ELSE IF isEcho(NextLine(t.r), op[c])
                  THEN pc' = [pc EXCEPT ![c] = IF op[c] = "lp" THEN "drain" ELSE "time"]
                       /\ UNCHANGED ret
                  ELSE pc' = [pc EXCEPT ![c] = nextEchoTurn] /\ UNCHANGED ret
          /\ UNCHANGED <<t, op, players, proc>>
  /\ UNCHANGED <<parseVars, apiVars, botVars>>

\* what GetPlayers returns with an error: return nil, fmt.Errorf(...)
ErrWithCollected(collected, err) == [NoRet EXCEPT !.players = collected, !.err = err]

errResult(collected, err) == [NoRet EXCEPT !.err = err]

\* players = append(players, player)
PrependPlayer(list, player) == <<player>> \o list

appendPlayer(list, player) == Append(list, player)

\* strings.Contains(line, "Total of ")
isSentinel(line) == Contains(line, <<"T", "o", "t", "a", "l", " ", "o", "f", " ">>)

\* the body line the next read of connection k returns
NextBody(k) == conns[k].script[conns[k].pos + 1]

\* parsePlayerInfo(line), for each line a server of the model sends
linePlayer ==
  [banner |-> parsePlayerInfo(Lines.banner), loginOK |-> parsePlayerInfo(Lines.loginOK),
   loginNo |-> parsePlayerInfo(Lines.loginNo),
   echoLp |-> parsePlayerInfo(Lines.echoLp), echoGt |-> parsePlayerInfo(Lines.echoGt),
   p1     |-> parsePlayerInfo(Lines.p1),     p2     |-> parsePlayerInfo(Lines.p2),
   pBad   |-> parsePlayerInfo(Lines.pBad),   total  |-> parsePlayerInfo(Lines.total),
   day    |-> parsePlayerInfo(Lines.day),    dayBad |-> parsePlayerInfo(Lines.dayBad)]

\* parseGameTime(line), for each line a server of the model sends
lineGameTime ==
  [banner |-> parseGameTime(Lines.banner), loginOK |-> parseGameTime(Lines.loginOK),
   loginNo |-> parseGameTime(Lines.loginNo),
   echoLp |-> parseGameTime(Lines.echoLp), echoGt |-> parseGameTime(Lines.echoGt),
   p1     |-> parseGameTime(Lines.p1),     p2     |-> parseGameTime(Lines.p2),
   pBad   |-> parseGameTime(Lines.pBad),   total  |-> parseGameTime(Lines.total),
   day    |-> parseGameTime(Lines.day),    dayBad |-> parseGameTime(Lines.dayBad)]

\* one turn of the loop of GetPlayers
Drain(c) ==
  /\ proc = "running" /\ pc[c] = "drain"
  /\ IF t.r = Nil THEN Panic(c)
     ELSE /\ conns' = AfterRead(t.r, c)
          /\ IF ~CanRead(t.r)
             THEN ReturnDeferred(c, errResult(players[c], ErrRead)) /\ UNCHANGED players
             ELSE IF isSentinel(NextLine(t.r))
                  THEN ReturnDeferred(c, [NoRet EXCEPT !.players = players[c]])
                       /\ UNCHANGED players
                  ELSE IF linePlayer[NextBody(t.r)].err # <<>>
                       THEN ReturnDeferred(c, errResult(players[c],
                                                        linePlayer[NextBody(t.r)].err))
                            /\ UNCHANGED players
                       ELSE /\ players' = [players EXCEPT
                                             ![c] = appendPlayer(@,
                                                      linePlayer[NextBody(t.r)].player)]
                            /\ UNCHANGED <<pc, ret>>
          /\ UNCHANGED <<t, op, proc>>
  /\ UNCHANGED <<parseVars, apiVars, botVars>>

\* strings.HasPrefix(line, "Day ")
AnyLineIsClock(line) == TRUE

isClockLine(line) == HasPrefix(line, <<"D", "a", "y", " ">>)

\* GetTime after exec: one line is read and parsed
ReadTime(c) ==
  /\ proc = "running" /\ pc[c] = "time"
  /\ IF t.r = Nil THEN Panic(c)
     ELSE /\ conns' = AfterRead(t.r, c)
          /\ IF ~CanRead(t.r)
             THEN ReturnDeferred(c, [NoRet EXCEPT !.err = ErrRead])
             ELSE IF ~isClockLine(NextLine(t.r))
                  THEN ReturnDeferred(c, [NoRet EXCEPT !.err = <<"F", "a", "i", "l", "e", "d", " ", "t", "o", " ", "p", "a", "r", "s", "e", " ", "t", "i", "m", "e">>])
                  ELSE ReturnDeferred(c, [NoRet EXCEPT
                                            !.gameTime = lineGameTime[NextBody(t.r)].gameTime,
                                            !.err = lineGameTime[NextBody(t.r)].err])
          /\ UNCHANGED <<t, op, players, proc>>
  /\ UNCHANGED <<parseVars, apiVars, botVars>>

\* ------------------------------------------------------------------------
\* close (deferred)
\* ------------------------------------------------------------------------

\* fmt.Fprintf(t.w, "exit\n"); t.w.Flush(): the write or the flush may fail,
\* and neither result is looked at
WriteExit(c) ==
  /\ proc = "running" /\ pc[c] = "exit"
  /\ IF t.w = Nil THEN Panic(c)
     ELSE /\ \E fails \in BOOLEAN :
               conns' = [AfterWrite(t.w, c, "exit") EXCEPT ![t.w].exitFailed = fails]
          /\ pc' = [pc EXCEPT ![c] = "close"]
          /\ UNCHANGED <<t, op, players, ret, proc>>
  /\ UNCHANGED <<parseVars, apiVars, botVars>>

\* defer t.close(): what close returns is dropped, the invocation returns what
\* it had set before
CloseErrorReturned(r, fails) ==
  [r EXCEPT !.done = TRUE, !.err = IF fails THEN <<"F", "a", "i", "l", "e", "d", " ", "t", "o", " ", "c", "l", "o", "s", "e", " ", "c", "o", "n", "n", "e", "c", "t", "i", "o", "n">> ELSE @]

afterClose(r, fails) == [r EXCEPT !.done = TRUE]

\* err := t.conn.Close(); on an error close returns before the handles are
\* reset. Closing a connection that is already closed is an error; any close
\* may fail.
CloseConn(c) ==
  /\ proc = "running" /\ pc[c] = "close"
  /\ IF t.conn = Nil THEN Panic(c)
     ELSE /\ \E fails \in BOOLEAN :
               /\ conns[t.conn].closed > 0 => fails
               /\ conns' = [conns EXCEPT ![t.conn].closed = @ + 1,
                                         ![t.conn].log = Append(@, <<"close", c>>),
                                         ![t.conn].closeFailed = fails]
               /\ t' = IF fails THEN t ELSE [t EXCEPT !.r = Nil, !.w = Nil]
               /\ ret' = [ret EXCEPT ![c] = afterClose(@, fails)]
          /\ pc' = [pc EXCEPT ![c] = "returned"]
          /\ UNCHANGED <<op, players, proc>>
  /\ UNCHANGED <<parseVars, apiVars, botVars>>

\* one step of caller c, its connection's script drawn from scripts
Step(c, scripts) ==
  \/ Call(c)
  \/ DialFail(c)
  \/ Dial(c, scripts)
  \/ MakeReaderWriter(c)
  \/ ReadBanner(c)
  \/ WritePass(c)
  \/ ReadLogin(c)
  \/ WriteCmd(c)
  \/ ReadEcho(c)
  \/ Drain(c)
  \/ ReadTime(c)
  \/ WriteExit(c)
  \/ CloseConn(c)

\* one invocation of GetPlayers or GetTime on a Telnet7days value
Init == InitSession /\ InitNoParse /\ InitNoApi /\ InitBot

Next == Step("c1", Scripts)

Spec == Init /\ [][Next]_vars

\* two invocations on the same Telnet7days value, their steps interleaved
\* (in particular one after the other)
NextConc == \E c \in AllCallers : Step(c, ConcScripts)

SpecConc == Init /\ [][NextConc]_vars

\* ------------------------------------------------------------------------
\* The parsers applied to bounded sets of inputs
\* ------------------------------------------------------------------------

\* the characters of the lines given to splitWithCommas, and their length
SplitAlphabet == {"a", ",", "(", ")", " ", BadByte}

MaxSplitLen == 5

\* the index prefixes and the fields of the lines given to parsePlayerInfo,
\* and the number of fields
Indexes == {<<"0">>, <<"9">>, <<"1", "0">>, <<"1", "2", "3">>}

PlayerFields ==
  {<<"i", "d", "=", "7">>, <<"B", "o", "b">>, <<"h", "e", "a", "l", "t", "h", "=", "8", "0">>, <<"p", "o", "s", "=", "(", "1", ".", "5", ",", " ", "-", "2", ".", "0", ",", " ", "3", ".", "2", "5", ")">>, <<"p", "l", "t", "f", "m", "i", "d", "=", "S", "t", "e", "a", "m", "_", "1", "2", "3">>,
   <<"A", "l", " ", "2", ".", " ", "b">>, <<"l", "e", "v", "e", "l", "=", "x">>, <<"z", "z", "z", "=", "1">>, <<"p", "o", "s", "=", "(", "2", ".", "5", ",", " ", "x", ",", " ", "3", ")">>, <<"I", "D", "=", "9">>}

MaxFields == 3

PlayerLine(idx, fields) == idx \o <<".", " ">> \o Join(fields, <<",", " ">>)

\* the pieces of the strings given to parseGameTime
TimeLine(pre, d, sep, h, colon, m, end) == pre \o d \o sep \o h \o colon \o m \o end

PlayerInput(idx, fields) ==
  [kind |-> "player", line |-> PlayerLine(idx, fields), idx |-> idx, fields |-> fields]

OtherInput(kind, line) == [kind |-> kind, line |-> line, idx |-> <<>>, fields |-> <<>>]

\* a string given to parseGameTime, with the pieces it is made of
TimeInput(pre, d, sep, h, colon, m, end) ==
  [kind |-> "time", line |-> TimeLine(pre, d, sep, h, colon, m, end), idx |-> <<>>,
   fields |-> <<pre, d, sep, h, colon, m, end>>]

\* the lines an output given to detectStartStatus is made of, by name
StartLineText ==
  [lEmpty     |-> <<>>,
   lBlank     |-> <<" ", " ">>,
   lWarning   |-> <<"t", "i", "m", "e", "=", "1", " ", "l", "e", "v", "e", "l", "=", "w", "a", "r", "n", "i", "n", "g", " ", "m", "s", "g", "=", "S", "t", "a", "r", "t", "e", "d">>,
   lStarted   |-> <<" ", "C", "o", "n", "t", "a", "i", "n", "e", "r", " ", "7", "d", "t", "d", " ", " ", "S", "t", "a", "r", "t", "e", "d">>,
   lLower     |-> <<"7", "d", "t", "d", " ", "s", "t", "a", "r", "t", "e", "d", ".">>,
   lBoth      |-> <<"S", "t", "a", "r", "t", "e", "d", ",", " ", "w", "a", "s", " ", "R", "u", "n", "n", "i", "n", "g">>,
   lRunning   |-> <<" ", "C", "o", "n", "t", "a", "i", "n", "e", "r", " ", "7", "d", "t", "d", " ", " ", "R", "u", "n", "n", "i", "n", "g">>,
   lUpper     |-> <<"R", "U", "N", "N", "I", "N", "G", "\r">>,
   lRestarted |-> <<"R", "e", "s", "t", "a", "r", "t", "e", "d", " ", "7", "d", "t", "d">>,
   lCreating  |-> <<" ", "C", "o", "n", "t", "a", "i", "n", "e", "r", " ", "7", "d", "t", "d", " ", " ", "C", "r", "e", "a", "t", "i", "n", "g">>]

StartLineNames == DOMAIN StartLineText

MaxStartLines == 2

\* an output of `docker compose up -d` made of the lines named
StartInput(names) ==
  [kind |-> "start", line |-> Join([i \in 1..Len(names) |-> StartLineText[names[i]]], <<"\n">>),
   idx |-> <<>>, fields |-> names]

\* the lines an output given to detectStopStatus is made of, by name
StopLineText ==
  [lEmpty     |-> <<>>,
   lBlank     |-> <<" ", "\t">>,
   lWarning   |-> <<"t", "i", "m", "e", "=", "1", " ", "l", "e", "v", "e", "l", "=", "w", "a", "r", "n", "i", "n", "g", " ", "m", "s", "g", "=", "S", "t", "o", "p", "p", "e", "d">>,
   lRemoved   |-> <<" ", "C", "o", "n", "t", "a", "i", "n", "e", "r", " ", "7", "d", "t", "d", " ", " ", "R", "e", "m", "o", "v", "e", "d">>,
   lStopped   |-> <<" ", "C", "o", "n", "t", "a", "i", "n", "e", "r", " ", "7", "d", "t", "d", " ", " ", "S", "t", "o", "p", "p", "e", "d">>,
   lLower     |-> <<"n", "e", "t", "w", "o", "r", "k", " ", "r", "e", "m", "o", "v", "e", "d", ".">>,
   lStopping  |-> <<" ", "C", "o", "n", "t", "a", "i", "n", "e", "r", " ", "7", "d", "t", "d", " ", " ", "S", "t", "o", "p", "p", "i", "n", "g">>,
   lUnstopped |-> <<"U", "n", "s", "t", "o", "p", "p", "e", "d", " ", "7", "d", "t", "d">>]

StopLineNames == DOMAIN StopLineText

MaxStopLines == 2

\* an output of `docker compose down` made of the lines named
StopInput(names) ==
  [kind |-> "stop", line |-> Join([i \in 1..Len(names) |-> StopLineText[names[i]]], <<"\n">>),
   idx |-> <<>>, fields |-> names]

\* the lines an output of the status command is made of, by name
PsLineText ==
  [lEmpty      |-> <<>>,
   lWarning    |-> <<"t", "i", "m", "e", "=", "1", " ", "l", "e", "v", "e", "l", "=", "w", "a", "r", "n", "i", "n", "g", " ", "7", "d", "t", "d", " ", "U", "p">>,
   lHeader     |-> <<"N", "A", "M", "E", " ", " ", " ", "S", "E", "R", "V", "I", "C", "E", " ", "7", "d", "t", "d", " ", "S", "T", "A", "T", "U", "S", " ", "U", "p">>,
   lUp         |-> <<"7", "d", "t", "d", " ", " ", " ", "i", "m", "g", " ", " ", " ", "U", "p", " ", "4", "1", " ", "h", "o", "u", "r", "s">>,
   lOtherUp    |-> <<"w", "e", "b", " ", " ", " ", " ", "i", "m", "g", " ", " ", " ", "U", "p", " ", "2", " ", "h", "o", "u", "r", "s">>,
   lExited     |-> <<"7", "d", "t", "d", " ", " ", " ", "i", "m", "g", " ", " ", " ", "E", "x", "i", "t", "e", "d", " ", "(", "1", ")", " ", "1", " ", "h", "o", "u", "r", " ", "a", "g", "o">>,
   lPaused     |-> <<"7", "d", "t", "d", " ", " ", " ", "i", "m", "g", " ", " ", " ", "P", "a", "u", "s", "e", "d">>,
   lUpPaused   |-> <<"7", "d", "t", "d", " ", " ", " ", "i", "m", "g", " ", " ", " ", "u", "p", " ", "2", " ", "h", "o", "u", "r", "s", " ", "(", "P", "a", "u", "s", "e", "d", ")">>,
   lRestarting |-> <<"7", "d", "t", "d", " ", " ", " ", "i", "m", "g", " ", " ", " ", "R", "e", "s", "t", "a", "r", "t", "i", "n", "g", " ", "(", "1", ")", " ", "5", " ", "s", "e", "c", "o", "n", "d", "s", " ", "a", "g", "o">>,
   lCreated    |-> <<"7", "d", "t", "d", " ", " ", " ", "i", "m", "g", " ", " ", " ", "C", "r", "e", "a", "t", "e", "d">>]

PsLineNames == DOMAIN PsLineText

\* the configured service name: one, or none
Services == {<<"7", "d", "t", "d">>, <<>>}

MaxPsLines == 2

\* an output of the status command made of the lines named, and the service
\* name configured
PsInput(names, service) ==
  [kind |-> "ps", line |-> Join([i \in 1..Len(names) |-> PsLineText[names[i]]], <<"\n">>),
   idx |-> service, fields |-> names]

\* the pieces between the dots of a player's IP as the upstream API gives it
IpParts == {<<"2", "0", "3">>, <<"7">>, <<"8">>, <<":", ":", "f", "f", "f", "f", ":", "1", "0">>, <<>>}

MaxIpParts == 4

\* the values of the query parameter maskIPs, the empty one for none
MaskParams == {<<>>, <<"t", "r", "u", "e">>, <<"0">>, <<"m", "a", "y", "b", "e">>}

\* a player's IP made of the pieces, and the value of maskIPs
IpInput(parts, param) ==
  [kind |-> "ip", line |-> Join(parts, <<".">>), idx |-> param, fields |-> parts]

\* the examples of the documentation
ExampleInputs ==
  {PlayerInput(<<"0">>, <<<<"B", "o", "b">>, <<"i", "d", "=", "7">>, <<"p", "o", "s", "=", "(", "1", ".", "5", ",", " ", "-", "2", ".", "0", ",", " ", "3", ".", "2", "5", ")">>, <<"h", "e", "a", "l", "t", "h", "=", "8", "0">>,
                       <<"p", "l", "t", "f", "m", "i", "d", "=", "S", "t", "e", "a", "m", "_", "1", "2", "3">>>>),
   PlayerInput(<<"0">>, <<<<"i", "d", "=", "7">>, <<"B", "o", "b">>, <<"p", "o", "s", "=", "(", "1", ".", "5", ",", " ", "-", "2", ".", "0", ",", " ", "3", ".", "2", "5", ")">>, <<"h", "e", "a", "l", "t", "h", "=", "8", "0">>,
                       <<"p", "l", "t", "f", "m", "i", "d", "=", "S", "t", "e", "a", "m", "_", "1", "2", "3">>>>),
   PlayerInput(<<"0">>, <<<<"X">>, <<"b", "a", "d", "f", "i", "e", "l", "d">>>>),
   OtherInput("split", <<"a", ",", " ", "(", "1", ",", " ", "2", ",", " ", "3", ")", ",", " ", "b">>),
   OtherInput("split", <<"a", ",", " ", "(", "(", "1", ",", " ", "2", ")", ",", " ", "3", ")", ",", " ", "b">>),
   OtherInput("time", <<"g", "a", "r", "b", "a", "g", "e">>)}

\* every line of an index and up to MaxFields fields
PlayerInputs ==
  {PlayerInput(idx, f) : idx \in Indexes, f \in SeqsUpTo(PlayerFields, MaxFields) \ {<<>>}}

\* every string of up to MaxSplitLen characters of the alphabet
SplitInputs == {OtherInput("split", s) : s \in SeqsUpTo(SplitAlphabet, MaxSplitLen)}

\* every string made of one choice for each of the seven pieces
TimeInputs ==
  {TimeInput(pre, d, sep, h, colon, m, end) :
     pre \in {<<"D", "a", "y", " ">>, <<"D", "a", "y">>, <<"d", "a", "y", " ">>}, d \in {<<"1", "7">>, <<"0">>, <<"-", "3">>, <<"x">>, <<"1", "7", "x">>},
     sep \in {<<",", " ">>, <<",">>, <<" ">>, <<",", " ", "1", ",">>}, h \in {<<"1", "5">>, <<"9", "9">>, <<"x">>, <<>>},
     colon \in {<<":">>, <<>>}, m \in {<<"2", "7">>, <<"7", "5">>, <<"x">>},
     end \in {<<>>, <<"\n">>, <<"z">>}}

\* every output of up to MaxStartLines lines
StartInputs == {StartInput(names) : names \in SeqsUpTo(StartLineNames, MaxStartLines)}

\* every output of up to MaxPsLines lines, with each service name
PsInputs ==
  {PsInput(names, service) : names \in SeqsUpTo(PsLineNames, MaxPsLines), service \in Services}

\* every IP of up to MaxIpParts pieces, with each value of maskIPs
IpInputs ==
  {IpInput(parts, param) : parts \in SeqsUpTo(IpParts, MaxIpParts), param \in MaskParams}

\* every output of up to MaxStopLines lines
StopInputs == {StopInput(names) : names \in SeqsUpTo(StopLineNames, MaxStopLines)}

ApplyParsePlayerInfo ==
  /\ pfn = "none" /\ pin.kind = "player"
  /\ pfn' = "parsePlayerInfo"
  /\ pout' = [NoOut EXCEPT !.fields = splitWithCommas(trimRe1ReplaceAll(pin.line)),
                           !.player = parsePlayerInfo(pin.line).player,
                           !.err = parsePlayerInfo(pin.line).err]
  /\ UNCHANGED <<pin, sessionVars, apiVars, botVars>>

ApplySplitWithCommas ==
  /\ pfn = "none" /\ pin.kind = "split"
  /\ pfn' = "splitWithCommas"
  /\ pout' = [NoOut EXCEPT !.fields = splitWithCommas(pin.line)]
  /\ UNCHANGED <<pin, sessionVars, apiVars, botVars>>

ApplyParseGameTime ==
  /\ pfn = "none" /\ pin.kind = "time"
  /\ pfn' = "parseGameTime"
  /\ pout' = [NoOut EXCEPT !.gameTime = parseGameTime(pin.line).gameTime,
                           !.err = parseGameTime(pin.line).err]
  /\ UNCHANGED <<pin, sessionVars, apiVars, botVars>>

ApplyDetectStartStatus ==
  /\ pfn = "none" /\ pin.kind = "start"
  /\ pfn' = "detectStartStatus"
  /\ pout' = [NoOut EXCEPT !.status = detectStartStatus(pin.line).status,
                           !.notes = detectStartStatus(pin.line).notes]
  /\ UNCHANGED <<pin, sessionVars, apiVars, botVars>>

ApplyDetectStopStatus ==
  /\ pfn = "none" /\ pin.kind = "stop"
  /\ pfn' = "detectStopStatus"
  /\ pout' = [NoOut EXCEPT !.status = detectStopStatus(pin.line).status,
                           !.notes = detectStopStatus(pin.line).notes]
  /\ UNCHANGED <<pin, sessionVars, apiVars, botVars>>

\* getStatus: parseComposePS on the output of the status command and the
\* configured service name
ApplyParseComposePS ==
  /\ pfn = "none" /\ pin.kind = "ps"
  /\ pfn' = "parseComposePS"
  /\ pout' = [NoOut EXCEPT !.status = parseComposePS(pin.line, pin.idx).state,
                           !.notes = parseComposePS(pin.line, pin.idx).notes]
  /\ UNCHANGED <<pin, sessionVars, apiVars, botVars>>

\* serverSummaryHandler on one player: maskIPs is read, and the player's ip is
\* put in the item
ApplySummaryIP ==
  /\ pfn = "none" /\ pin.kind = "ip"
  /\ pfn' = "maskIP"
  /\ pout' = IF qBool(pin.idx, TRUE).err # <<>>
             THEN [NoOut EXCEPT !.err = qBool(pin.idx, TRUE).err, !.status = "400"]
             ELSE [NoOut EXCEPT !.status = "200",
                                !.notes = summaryIP(pin.line, qBool(pin.idx, TRUE).value)]
  /\ UNCHANGED <<pin, sessionVars, apiVars, botVars>>

InitParse ==
  /\ InitSession
  /\ \/ pin \in ExampleInputs
     \/ pin \in PlayerInputs
     \/ pin \in SplitInputs
     \/ pin \in TimeInputs
     \/ pin \in StartInputs
     \/ pin \in StopInputs
     \/ pin \in PsInputs
     \/ pin \in IpInputs
  /\ pfn = "none"
  /\ pout = NoOut
  /\ InitNoApi
  /\ InitBot

NextParse ==
  \/ ApplyParsePlayerInfo
  \/ ApplySplitWithCommas
  \/ ApplyParseGameTime
  \/ ApplyDetectStartStatus
  \/ ApplyDetectStopStatus
  \/ ApplyParseComposePS
  \/ ApplySummaryIP

SpecParse == InitParse /\ [][NextParse]_vars


\* ------------------------------------------------------------------------
\* apiserver7dtd: the handlers of /server/start, /server/stop and
\* /server/restart, up to what they write to their ResponseWriter
\* ------------------------------------------------------------------------

MaxRequests == 2

\* what a command may print: nothing, the lines docker compose prints, an
\* error text, markup, a byte that is not UTF-8
Outputs ==
  {<<>>,
   <<" ", "C", "o", "n", "t", "a", "i", "n", "e", "r", " ", "7", "d", "t", "d", " ", " ", "S", "t", "a", "r", "t", "e", "d", "\n">>,
   <<" ", "C", "o", "n", "t", "a", "i", "n", "e", "r", " ", "7", "d", "t", "d", " ", " ", "R", "u", "n", "n", "i", "n", "g", "\n">>,
   <<" ", "C", "o", "n", "t", "a", "i", "n", "e", "r", " ", "7", "d", "t", "d", " ", " ", "R", "e", "m", "o", "v", "e", "d", "\n">>,
   <<"o", "o", "p", "s", ":", " ", "p", "e", "r", "m", "i", "s", "s", "i", "o", "n", " ", "d", "e", "n", "i", "e", "d", "\n">>,
   <<"a", "<", "b", " ">> \o <<BadByte>>}

ExitCodes == {0, 1, -1}

Errors == {"exit status 1"}

\* what one call of CommandRunner.Run may return: any exit code, any output,
\* an error or none
RunOutcomes == [ExitCode : ExitCodes, Output : Outputs, err : Errors \cup {Nil}]

\* cmdRunner.Run(ctx, command) returning o: the ExecResult it builds
ExecOf(command, o) == [Command |-> command, ExitCode |-> o.ExitCode, Output |-> o.Output]

\* the call, entered in the list of the request's calls
AfterRun(command, o) == Append(runs, [Command |-> command, res |-> ExecOf(command, o), err |-> o.err])

NoLocals == [res |-> NoExec, Stop |-> NoExec, Start |-> NoExec, err |-> Nil]

\* the server hands a request to its handler
Accept ==
  /\ hpc \in {"idle", "done"} /\ served < MaxRequests
  /\ \E route \in {"start", "stop", "restart", "summary"} :
       /\ hreq' = route
       /\ hpc' = IF route = "restart" THEN "stopServer"
                 ELSE IF route = "summary" THEN "params" ELSE "run"
  /\ runs' = <<>>
  /\ hres' = NoLocals
  /\ resp' = NoResp
  /\ probe' = [s \in Sources |-> NoProbe]
  /\ wg' = 0
  /\ served' = served + 1
  /\ UNCHANGED <<sessionVars, parseVars, botVars>>

\* the 409 of a failed command
commandFailed(err) == [NoResp EXCEPT !.code = 409, !.errorCode = "COMMAND_FAILED", !.message = err]

\* the 200 of a command: the status, the result, a note unless it is empty
commandDone(detected, res) ==
  [NoResp EXCEPT !.code = 200, !.status = detected.status, !.exec = jsonExec(res),
                 !.note = IF detected.notes = <<>> THEN <<>> ELSE jsonString(detected.notes)]

\* serverStart
ServerStart ==
  /\ hreq = "start" /\ hpc = "run"
  /\ \E o \in RunOutcomes :
       /\ runs' = AfterRun("StartCmd", o)
       /\ hres' = [hres EXCEPT !.res = ExecOf("StartCmd", o), !.err = o.err]
       /\ resp' = IF o.err # Nil
                  THEN [commandFailed(o.err) EXCEPT !.exec = jsonExec(ExecOf("StartCmd", o))]
                  ELSE commandDone(detectStartStatus(o.Output), ExecOf("StartCmd", o))
  /\ hpc' = "done"
  /\ UNCHANGED <<hreq, probe, wg, served, sessionVars, parseVars, botVars>>

\* serverStop
ServerStop ==
  /\ hreq = "stop" /\ hpc = "run"
  /\ \E o \in RunOutcomes :
       /\ runs' = AfterRun("StopCmd", o)
       /\ hres' = [hres EXCEPT !.res = ExecOf("StopCmd", o), !.err = o.err]
       /\ resp' = IF o.err # Nil
                  THEN [commandFailed(o.err) EXCEPT !.exec = jsonExec(ExecOf("StopCmd", o))]
                  ELSE commandDone(detectStopStatus(o.Output), ExecOf("StopCmd", o))
  /\ hpc' = "done"
  /\ UNCHANGED <<hreq, probe, wg, served, sessionVars, parseVars, botVars>>

\* an error of either command, in place of the start command's alone
RestartErrEither(stopErr, startErr) == IF stopErr # Nil THEN stopErr ELSE startErr

\* the error restartServer returns: the start command's; the stop command's
\* was dropped
restartErr(stopErr, startErr) == startErr

\* restartServer: stopRes, _ := stopServer(ctx)
RestartStop ==
  /\ hreq = "restart" /\ hpc = "stopServer"
  /\ \E o \in RunOutcomes :
       /\ runs' = AfterRun("StopCmd", o)
       /\ hres' = [hres EXCEPT !.Stop = ExecOf("StopCmd", o)]
  /\ hpc' = "sleep"
  /\ UNCHANGED <<hreq, resp, probe, wg, served, sessionVars, parseVars, botVars>>

\* restartServer: time.Sleep(5 * time.Second)
RestartSleep ==
  /\ hreq = "restart" /\ hpc = "sleep"
  /\ hpc' = "startServer"
  /\ UNCHANGED <<hreq, runs, hres, resp, probe, wg, served, sessionVars, parseVars, botVars>>

\* restartServer: startRes, startErr := startServer(ctx), and its return
RestartStart ==
  /\ hreq = "restart" /\ hpc = "startServer"
  /\ \E o \in RunOutcomes :
       /\ runs' = AfterRun("StartCmd", o)
       /\ hres' = [hres EXCEPT !.Start = ExecOf("StartCmd", o),
                               !.err = restartErr(runs[1].err, o.err)]
  /\ hpc' = "respond"
  /\ UNCHANGED <<hreq, resp, probe, wg, served, sessionVars, parseVars, botVars>>

\* serverRestart, after restartServer returned
RestartRespond ==
  /\ hreq = "restart" /\ hpc = "respond"
  /\ resp' = IF hres.err # Nil
             THEN [commandFailed(hres.err) EXCEPT !.execStop = jsonExec(hres.Stop),
                                                  !.execStart = jsonExec(hres.Start)]
             ELSE [NoResp EXCEPT !.code = 200,
                                 !.status = IF detectStartStatus(hres.Start.Output).status = "starting"
                                            THEN "restarting" ELSE "restarted",
                                 !.execStop = jsonExec(hres.Stop),
                                 !.execStart = jsonExec(hres.Start)]
  /\ hpc' = "done"
  /\ UNCHANGED <<hreq, runs, hres, probe, wg, served, sessionVars, parseVars, botVars>>

\* ------------------------------------------------------------------------
\* apiserver7dtd: serverSummaryHandler and its three fetch goroutines
\* ------------------------------------------------------------------------

\* wg.Wait returning while one goroutine has yet to call wg.Done
WaitReleasedEarly(n) == n <= 1

\* wg.Wait returns when the counter is zero
waitReleased(n) == n = 0

\* the five query parameters are read; one that does not parse ends the
\* request with 400, else wg.Add(3) and the three goroutines start
SummaryParams ==
  /\ hreq = "summary" /\ hpc = "params"
  /\ \E valid \in BOOLEAN :
       IF valid
       THEN /\ wg' = 3
            /\ probe' = [s \in Sources |-> [NoProbe EXCEPT !.at = "get"]]
            /\ hpc' = "wait"
            /\ UNCHANGED resp
       ELSE /\ resp' = [NoResp EXCEPT !.code = 400]
            /\ hpc' = "done"
            /\ UNCHANGED <<wg, probe>>
  /\ UNCHANGED <<hreq, runs, hres, served, sessionVars, parseVars, botVars>>

\* a goroutine's httpJSONGet returns: the decoded answer, or an error (the
\* request failed, the deadline passed, a status outside 2xx, a body that is
\* not the JSON expected)
Fetch(s) ==
  /\ probe[s].at = "get"
  /\ \E got \in {"ok", "err"} : probe' = [probe EXCEPT ![s].got = got, ![s].at = "set"]
  /\ UNCHANGED <<hreq, hpc, runs, hres, resp, wg, served, sessionVars, parseVars, botVars>>

\* the goroutine fills its sourceProbe
SetProbe(s) ==
  /\ probe[s].at = "set"
  /\ probe' = [probe EXCEPT ![s].OK = (probe[s].got = "ok"),
                            ![s].ErrMsg = IF probe[s].got = "ok" THEN "" ELSE "upstream",
                            ![s].at = "defer"]
  /\ UNCHANGED <<hreq, hpc, runs, hres, resp, wg, served, sessionVars, parseVars, botVars>>

\* the goroutine's deferred wg.Done()
WgDone(s) ==
  /\ probe[s].at = "defer"
  /\ wg' = wg - 1
  /\ probe' = [probe EXCEPT ![s].at = "done"]
  /\ UNCHANGED <<hreq, hpc, runs, hres, resp, served, sessionVars, parseVars, botVars>>

anyOK == \E s \in Sources : probe[s].OK

allOK == \A s \in Sources : probe[s].OK

\* the sourceProbes as the handler reads them, in the order it lists them
probesRead == <<probe["serverstats"].OK, probe["player"].OK, probe["hostile"].OK>>

\* wg.Wait() returned: 502 when no source is OK; else getStatus runs the status
\* command, whatever it returns, and the 200 is written
SummaryRespond ==
  /\ hreq = "summary" /\ hpc = "wait" /\ waitReleased(wg)
  /\ IF ~anyOK
     THEN /\ resp' = [NoResp EXCEPT !.code = 502, !.errorCode = "UPSTREAM_FAILED",
                                    !.message = "all upstream sources failed",
                                    !.sources = probesRead]
          /\ UNCHANGED <<runs, hres>>
     ELSE \E o \in RunOutcomes :
            /\ runs' = AfterRun("StatusCmd", o)
            /\ hres' = [hres EXCEPT !.res = ExecOf("StatusCmd", o)]
            /\ resp' = [NoResp EXCEPT !.code = 200, !.partial = ~allOK, !.sources = probesRead]
  /\ hpc' = "done"
  /\ UNCHANGED <<hreq, probe, wg, served, sessionVars, parseVars, botVars>>

NextApi ==
  \/ Accept
  \/ ServerStart
  \/ ServerStop
  \/ RestartStop
  \/ RestartSleep
  \/ RestartStart
  \/ RestartRespond
  \/ SummaryParams
  \/ \E s \in Sources : Fetch(s)
  \/ \E s \in Sources : SetProbe(s)
  \/ \E s \in Sources : WgDone(s)
  \/ SummaryRespond

SpecApi == Init /\ [][NextApi]_vars

\* ------------------------------------------------------------------------
\* The Discord bot: ready, update, updateChannelTopic
\* ------------------------------------------------------------------------

\* what update got from GetStatus and fetchOnlineNames: the day and the hour
\* of the game and the number of players (all zero when GetStatus failed)
Statuses ==
  {[day |-> 0, hour |-> 0, players |-> 0],
   [day |-> 7, hour |-> 1, players |-> 0],
   [day |-> 7, hour |-> 2, players |-> 1]}

\* the topic updateChannelTopic builds: the two links, the header line of
\* the day and the hour, the line of the players
topicOf(st) ==
  IF st.day = 0 THEN "links / 0d 0h [7 days to BloodMoon(7)] / no players"
  ELSE IF st.hour = 1 THEN "links / 7d 1h [BloodMoon] / no players"
  ELSE "links / 7d 2h [BloodMoon] / 1 player"

\* time.Since(d.lastTopicAt) < 60*time.Second && d.lastTopic != ""
RateLimitedHalf(b, clock) == clock - b.lastTopicAt < Period /\ b.lastTopic # ""

rateLimited(b, clock) == clock - b.lastTopicAt < MinStep /\ b.lastTopic # ""

\* update returns: to ready, which then starts the ticker, or to the loop
afterUpdate(l) == [l EXCEPT !.pc = IF l.ticking THEN "wait" ELSE "ticker"]

\* the session delivers a Ready event: ready runs in a new goroutine and
\* calls d.update()
Ready(g) ==
  /\ loops[g].pc = "none"
  /\ loops' = [loops EXCEPT ![g].pc = "status"]
  /\ UNCHANGED <<now, bot, edits, sessionVars, parseVars, apiVars>>

\* stats, err := d.GetStatus() and the fetches of update return
GetStatus(g) ==
  /\ loops[g].pc = "status"
  /\ \E st \in Statuses : loops' = [loops EXCEPT ![g].pc = "guard", ![g].topic = topicOf(st)]
  /\ UNCHANGED <<now, bot, edits, sessionVars, parseVars, apiVars>>

\* updateChannelTopic: the test of the time since the last edit
Guard(g) ==
  /\ loops[g].pc = "guard"
  /\ loops' = [loops EXCEPT ![g] = IF rateLimited(bot, now) THEN afterUpdate(@)
                                   ELSE [@ EXCEPT !.pc = "compare"]]
  /\ UNCHANGED <<now, bot, edits, sessionVars, parseVars, apiVars>>

\* if topic == d.lastTopic { return }
Compare(g) ==
  /\ loops[g].pc = "compare"
  /\ loops' = [loops EXCEPT ![g] = IF @.topic = bot.lastTopic THEN afterUpdate(@)
                                   ELSE [@ EXCEPT !.pc = "edit"]]
  /\ UNCHANGED <<now, bot, edits, sessionVars, parseVars, apiVars>>

\* d.s.ChannelEditComplex(...): it succeeds or fails; on a failure
\* updateChannelTopic returns
Edit(g) ==
  /\ loops[g].pc = "edit"
  /\ \E ok \in BOOLEAN :
       /\ edits' = [last |-> [topic |-> loops[g].topic, at |-> now, ok |-> ok, by |-> g],
                    okBefore |-> IF edits.last.ok THEN edits.last ELSE edits.okBefore]
       /\ loops' = [loops EXCEPT ![g] = IF ok THEN [@ EXCEPT !.pc = "store"]
                                        ELSE afterUpdate(@)]
  /\ UNCHANGED <<now, bot, sessionVars, parseVars, apiVars>>

\* d.lastTopic = topic
Store(g) ==
  /\ loops[g].pc = "store"
  /\ bot' = [bot EXCEPT !.lastTopic = loops[g].topic]
  /\ loops' = [loops EXCEPT ![g].pc = "stamp"]
  /\ UNCHANGED <<now, edits, sessionVars, parseVars, apiVars>>

\* d.lastTopicAt = time.Now()
Stamp(g) ==
  /\ loops[g].pc = "stamp"
  /\ bot' = [bot EXCEPT !.lastTopicAt = now]
  /\ loops' = [loops EXCEPT ![g] = afterUpdate(@)]
  /\ UNCHANGED <<now, edits, sessionVars, parseVars, apiVars>>

\* ticker := time.NewTicker(30 * time.Second); go func() {...}()
NewTicker(g) ==
  /\ loops[g].pc = "ticker"
  /\ loops' = [loops EXCEPT ![g].pc = "wait", ![g].ticking = TRUE,
                            ![g].nextTick = now + Period]
  /\ UNCHANGED <<now, bot, edits, sessionVars, parseVars, apiVars>>

\* the ticker sends on ticker.C, which holds one tick: a tick that finds
\* the channel full is dropped
TickFire(g) ==
  /\ loops[g].ticking /\ loops[g].nextTick = now
  /\ loops' = [loops EXCEPT ![g].pending = TRUE, ![g].nextTick = @ + Period]
  /\ UNCHANGED <<now, bot, edits, sessionVars, parseVars, apiVars>>

\* for range ticker.C { d.update() }: the loop takes a tick
LoopTake(g) ==
  /\ loops[g].pc = "wait" /\ loops[g].pending
  /\ loops' = [loops EXCEPT ![g].pc = "status", ![g].pending = FALSE]
  /\ UNCHANGED <<now, bot, edits, sessionVars, parseVars, apiVars>>

\* ten seconds pass, up to the instant end; no ticker misses its instant
Advance(end) ==
  /\ now < end
  /\ \A g \in Loops : loops[g].ticking => loops[g].nextTick > now
  /\ now' = now + 1
  /\ UNCHANGED <<bot, loops, edits, sessionVars, parseVars, apiVars>>

BotStep(g) ==
  \/ Ready(g)
  \/ GetStatus(g)
  \/ Guard(g)
  \/ Compare(g)
  \/ Edit(g)
  \/ Store(g)
  \/ Stamp(g)
  \/ NewTicker(g)
  \/ TickFire(g)
  \/ LoopTake(g)

\* the bot with one Ready event delivered
NextBot == Advance(MaxTime) \/ BotStep("g1")

SpecBot == Init /\ [][NextBot]_vars

\* the bot with a Ready event delivered again (the session connected anew)
NextBotReady == Advance(MaxReadyTime) \/ \E g \in Loops : BotStep(g)

SpecBotReady == Init /\ [][NextBotReady]_vars

\* ------------------------------------------------------------------------
\* Properties of a session
\* ------------------------------------------------------------------------

\* the kind of the i-th event of connection k
Kind(k, i) == conns[k].log[i][1]

\* the number of lines read from connection k before its event i
ReadsBefore(k, i) == Cardinality({j \in 1..(i - 1) : conns[k].log[j][1] = "read"})

WriteRank(kind) ==
  IF kind = "pass" THEN 1 ELSE IF kind \in {"lp", "gt"} THEN 2 ELSE IF kind = "exit" THEN 3 ELSE 0

\* C1: for every invocation in which the dial succeeded, the connection has
\* been closed exactly once when the invocation has returned.
C1_ClosedExactlyOnce ==
  \A c \in AllCallers :
    (pc[c] = "returned" /\ conns[c].dialed) => conns[c].closed = 1

\* C2: two concurrent invocations on the same Telnet7days value do not
\* interfere: every read, write and close on a connection is made by the
\* invocation that dialed it, and no invocation dereferences a handle the
\* other has reset.
C2_NoInterference ==
  /\ proc # "panicked"
  /\ \A k \in AllCallers : \A i \in 1..Len(conns[k].log) : conns[k].log[i][2] = k

\* C3: whenever GetPlayers returns an error it returns no player records,
\* whatever it had collected from earlier lines.
C3_ErrorMeansNoPlayers ==
  \A c \in AllCallers :
    (op[c] = "lp" /\ ret[c].err # <<>>) => ret[c].players = <<>>

C3_Witness ==
  /\ ret["c1"].done /\ op["c1"] = "lp"
  /\ ret["c1"].err # <<>>
  /\ Len(players["c1"]) = 2
  /\ ret["c1"].players = <<>>

\* the records of the two well-formed player lines, written out
ExpectedPlayer ==
  [p1 |-> [ZeroPlayer EXCEPT !.ID = 171, !.Name = <<"B", "o", "b">>,
                             !.Position = <<150, -200, 325>>, !.Health = 80],
   p2 |-> [ZeroPlayer EXCEPT !.ID = 172, !.Name = <<"A", "l">>,
                             !.Position = <<50, 6100, -700>>, !.Health = 55, !.Ping = 12]]

\* s is: banner, login success, other lines, the lp echo at e, well-formed
\* player lines, the sentinel at z (anything may follow)
LpStream(s, e, z) ==
  /\ 3 <= e /\ e < z /\ z <= Len(s)
  /\ s[1] = "banner" /\ s[2] = "loginOK"
  /\ \A i \in 3..(e - 1) : s[i] # "echoLp"
  /\ s[e] = "echoLp"
  /\ \A i \in (e + 1)..(z - 1) : s[i] \in {"p1", "p2"}
  /\ s[z] = "total"

\* C4: for a stream of that shape GetPlayers returns, without error, exactly
\* the records of the lines between the echo and the sentinel, in their
\* order, and has read nothing after the sentinel.
C4_RecordsInInputOrder ==
  \A c \in AllCallers :
    \A e \in 1..Len(conns[c].script) : \A z \in 1..Len(conns[c].script) :
      (op[c] = "lp" /\ pc[c] = "returned" /\ LpStream(conns[c].script, e, z))
        => /\ ret[c].err = <<>>
           /\ ret[c].players = [i \in 1..(z - e - 1) |-> ExpectedPlayer[conns[c].script[e + i]]]
           /\ conns[c].pos = z

C4_Witness ==
  /\ pc["c1"] = "returned" /\ op["c1"] = "lp"
  /\ conns["c1"].script = <<"banner", "loginOK", "echoLp", "p2", "p1", "total">>
  /\ ret["c1"].players = <<ExpectedPlayer["p2"], ExpectedPlayer["p1"]>>

\* C5: on every connection the client writes at most one password line, then
\* at most one command line, then at most one exit line, in this order; the
\* password only after the banner has been read, the command only after a
\* login line containing the marker has been read, and after exit nothing is
\* read or written.
C5_WriteOrder ==
  \A k \in AllCallers :
    \A i \in 1..Len(conns[k].log) :
      /\ \A j \in (i + 1)..Len(conns[k].log) :
           (WriteRank(Kind(k, i)) > 0 /\ WriteRank(Kind(k, j)) > 0)
             => WriteRank(Kind(k, i)) < WriteRank(Kind(k, j))
      /\ Kind(k, i) = "pass" => ReadsBefore(k, i) >= 1
      /\ Kind(k, i) \in {"lp", "gt"}
           => /\ ReadsBefore(k, i) >= 2
              /\ Contains(Lines[conns[k].script[2]], <<"L", "o", "g", "o", "n", " ", "s", "u", "c", "c", "e", "s", "s", "f", "u", "l", ".">>)
      /\ \A j \in (i + 1)..Len(conns[k].log) :
           Kind(k, i) = "exit" => Kind(k, j) = "close"

C5_Witness ==
  /\ pc["c1"] = "returned"
  /\ \E n \in 2..Len(conns["c1"].log) :
       Kind("c1", n - 1) = "exit" /\ Kind("c1", n) = "close"
  /\ \E i \in 1..Len(conns["c1"].log) : Kind("c1", i) = "pass"
  /\ \E i \in 1..Len(conns["c1"].log) : Kind("c1", i) = "gt"

\* C6: if the line read after the password does not contain the login
\* marker, the process has exited: the invocation has not returned and no
\* command line was written on the connection.
C6_LoginFailureIsFatal ==
  \A c \in AllCallers :
    (conns[c].pos >= 2 /\ ~Contains(Lines[conns[c].script[2]], <<"L", "o", "g", "o", "n", " ", "s", "u", "c", "c", "e", "s", "s", "f", "u", "l", ".">>))
      => /\ proc = "exited"
         /\ pc[c] # "returned" /\ ~ret[c].done
         /\ \A i \in 1..Len(conns[c].log) : Kind(c, i) \notin {"lp", "gt"}

C6_Witness ==
  /\ proc = "exited"
  /\ conns["c1"].script = <<"banner", "loginNo">>
  /\ conns["c1"].pos = 2

\* ------------------------------------------------------------------------
\* Properties of the parsers
\* ------------------------------------------------------------------------

\* the key=value fields of the inputs whose key is recognised and whose
\* value converts
GoodFields == {<<"i", "d", "=", "7">>, <<"h", "e", "a", "l", "t", "h", "=", "8", "0">>, <<"p", "o", "s", "=", "(", "1", ".", "5", ",", " ", "-", "2", ".", "0", ",", " ", "3", ".", "2", "5", ")">>, <<"p", "l", "t", "f", "m", "i", "d", "=", "S", "t", "e", "a", "m", "_", "1", "2", "3">>}

\* field f stands in fields at a position other than skip
HasField(fields, f, skip) == \E i \in 1..Len(fields) : i # skip /\ fields[i] = f

\* the record the fields describe, the name being the field at position name
\* (counted from 1), written out field by field
ExpectedRecord(fields, name) ==
  [ZeroPlayer EXCEPT
     !.Name = fields[name],
     !.ID = IF HasField(fields, <<"i", "d", "=", "7">>, name) THEN 7 ELSE 0,
     !.Health = IF HasField(fields, <<"h", "e", "a", "l", "t", "h", "=", "8", "0">>, name) THEN 80 ELSE 0,
     !.Position = IF HasField(fields, <<"p", "o", "s", "=", "(", "1", ".", "5", ",", " ", "-", "2", ".", "0", ",", " ", "3", ".", "2", "5", ")">>, name)
                  THEN <<150, -200, 325>> ELSE <<0, 0, 0>>,
     !.PltfmID = IF HasField(fields, <<"p", "l", "t", "f", "m", "i", "d", "=", "S", "t", "e", "a", "m", "_", "1", "2", "3">>, name)
                 THEN <<"S", "t", "e", "a", "m", "_", "1", "2", "3">> ELSE <<>>]

\* a digit followed by ". " somewhere in s
HasDigitDotSpace(s) ==
  \E i \in 1..(Len(s) - 2) : s[i] \in Digits /\ s[i + 1] = "." /\ s[i + 2] = " "

C8_IndexPrefixOnly ==
  pfn = "parsePlayerInfo" => pout.fields = pin.fields

\* the i-th smallest element of a set of numbers
Nth(set, i) == CHOOSE p \in set : Cardinality({q \in set : q < p}) = i - 1

\* s with every byte that is not UTF-8 replaced by U+FFFD
toValidUTF8(s) == [i \in 1..Len(s) |-> IF s[i] = BadByte THEN ReplacementChar ELSE s[i]]

\* the line cut at the positions seps, each piece trimmed; the pieces are
\* made of the characters of the line, a byte that is not UTF-8 being U+FFFD
SplitAt(s, seps) ==
  [i \in 1..(Cardinality(seps) + 1) |->
     TrimSpace(SubSeq(toValidUTF8(s),
                      (IF i = 1 THEN 0 ELSE Nth(seps, i - 1)) + 1,
                      (IF i = Cardinality(seps) + 1 THEN Len(s) + 1 ELSE Nth(seps, i)) - 1))]

\* the number of "(" less the number of ")" in u
Depth(u) ==
  Cardinality({i \in 1..Len(u) : u[i] = "("}) - Cardinality({i \in 1..Len(u) : u[i] = ")"})

\* the "(" at j and the ")" at k match
Matching(s, j, k) ==
  /\ s[j] = "(" /\ s[k] = ")"
  /\ Depth(SubSeq(s, j + 1, k - 1)) = 0
  /\ \A n \in (j + 1)..(k - 1) : Depth(SubSeq(s, j + 1, n)) >= 0

\* C9: (the claim as stated) a comma separates fields if and only if it does
\* not lie between a "(" and its matching ")".
C9_MatchingParens ==
  pfn = "splitWithCommas"
    => pout.fields =
         SplitAt(pin.line,
                 {i \in 1..Len(pin.line) :
                    /\ pin.line[i] = ","
                    /\ ~\E j \in 1..(i - 1) : \E k \in (i + 1)..Len(pin.line) :
                          Matching(pin.line, j, k)})

\* C9: (amended) a comma separates fields if and only if the nearest
\* parenthesis before it, if there is one, is a ")": the groups are tracked
\* by one flag, not by their depth.
C9_NearestParenIsClose ==
  pfn = "splitWithCommas"
    => pout.fields =
         SplitAt(pin.line,
                 {i \in 1..Len(pin.line) :
                    /\ pin.line[i] = ","
                    /\ \A j \in 1..(i - 1) :
                         pin.line[j] = "("
                           => \E k \in (j + 1)..(i - 1) : pin.line[k] = ")"})

C9_Witness ==
  /\ pfn = "splitWithCommas"
  /\ pin.line = <<"a", ",", " ", "(", "1", ",", " ", "2", ",", " ", "3", ")", ",", " ", "b">>
  /\ pout.fields = <<<<"a">>, <<"(", "1", ",", " ", "2", ",", " ", "3", ")">>, <<"b">>>>

\* C10: whenever parseGameTime returns an error, the GameTime returned with
\* it is the zero value.
C10_ErrorMeansZero ==
  (pfn = "parseGameTime" /\ pout.err # <<>>) => pout.gameTime = ZeroGameTime


\* ------------------------------------------------------------------------
\* Properties of the fields of a player line
\* ------------------------------------------------------------------------

\* the field holds no "="
NoEquals(f) == \A j \in 1..Len(f) : f[j] # "="

\* the positions (counted from 1) of the fields that must be key=value pairs
\* and hold no "="
Offenders(fields) == {i \in 1..Len(fields) : i # 2 /\ NoEquals(fields[i])}

FirstOf(set) == CHOOSE i \in set : \A j \in set : i <= j

FailingFields == {<<"l", "e", "v", "e", "l", "=", "x">>, <<"p", "o", "s", "=", "(", "2", ".", "5", ",", " ", "x", ",", " ", "3", ")">>}

\* C12: a recognised numeric key whose value fails conversion causes no
\* error and leaves its field at the zero value (for pos all three
\* coordinates, also when only the second number is malformed), and every
\* other field of the line is still applied.
C12_FailedConversionIsZero ==
  (/\ pfn = "parsePlayerInfo"
   /\ Len(pin.idx) = 1
   /\ Len(pin.fields) >= 2
   /\ ~HasDigitDotSpace(pin.fields[2])
   /\ \A i \in 1..Len(pin.fields) : i # 2 => pin.fields[i] \in GoodFields \cup FailingFields
   /\ \E i \in 1..Len(pin.fields) : i # 2 /\ pin.fields[i] \in FailingFields
   /\ ~HasField(pin.fields, <<"p", "o", "s", "=", "(", "1", ".", "5", ",", " ", "-", "2", ".", "0", ",", " ", "3", ".", "2", "5", ")">>, 2))
    => /\ pout.err = <<>>
       /\ pout.player = ExpectedRecord(pin.fields, 2)

\* the key=value fields of the inputs whose key the switch does not list
UnknownFields == {<<"z", "z", "z", "=", "1">>, <<"I", "D", "=", "9">>}

\* C13: a key=value field with an unrecognised key, at a position other than
\* the second, causes no error and changes no field of the record: the record
\* is the one the other fields describe, whatever the unknown key and value.
C13_UnknownKeyIgnored ==
  (/\ pfn = "parsePlayerInfo"
   /\ Len(pin.idx) = 1
   /\ Len(pin.fields) >= 2
   /\ ~HasDigitDotSpace(pin.fields[2])
   /\ \A i \in 1..Len(pin.fields) : i # 2 => pin.fields[i] \in GoodFields \cup UnknownFields
   /\ \E i \in 1..Len(pin.fields) : i # 2 /\ pin.fields[i] \in UnknownFields)
    => /\ pout.err = <<>>
       /\ pout.player = ExpectedRecord(pin.fields, 2)

C13_Witness ==
  /\ pfn = "parsePlayerInfo"
  /\ pin.fields = <<<<"I", "D", "=", "9">>, <<"B", "o", "b">>, <<"i", "d", "=", "7">>>>
  /\ pout.err = <<>>
  /\ pout.player = [ZeroPlayer EXCEPT !.Name = <<"B", "o", "b">>, !.ID = 7]

\* ------------------------------------------------------------------------
\* Properties of parseGameTime
\* ------------------------------------------------------------------------

\* the pieces of a string given to parseGameTime
TimePre == pin.fields[1]
TimeDay == pin.fields[2]
TimeSep == pin.fields[3]
TimeHour == pin.fields[4]
TimeColon == pin.fields[5]
TimeMinute == pin.fields[6]
TimeEnd == pin.fields[7]

IsTimeInput == pfn = "parseGameTime" /\ Len(pin.fields) = 7

\* the pieces that are a non-negative integer, and the integer they are
NatTokens == {<<"1", "7">>, <<"0">>, <<"1", "5">>, <<"9", "9">>, <<"2", "7">>, <<"7", "5">>}

\* the pieces that begin with an integer: an integer, or one with text after it
IntPrefixTokens == NatTokens \cup {<<"-", "3">>, <<"1", "7", "x">>}

TokenValue(tok) ==
  IF tok = <<"1", "7">> \/ tok = <<"1", "7", "x">> THEN 17
  ELSE IF tok = <<"0">> THEN 0
  ELSE IF tok = <<"-", "3">> THEN 0 - 3
  ELSE IF tok = <<"1", "5">> THEN 15
  ELSE IF tok = <<"9", "9">> THEN 99
  ELSE IF tok = <<"2", "7">> THEN 27
  ELSE 75

TokensValue == [Days |-> TokenValue(TimeDay), Hours |-> TokenValue(TimeHour),
                Minutes |-> TokenValue(TimeMinute)]

\* the string is `Day <integer>, <integer>:<integer>` (the space after the
\* comma and a newline at the end are not held against it)
WellShaped ==
  /\ TimePre = <<"D", "a", "y", " ">> /\ TimeSep \in {<<",", " ">>, <<",">>} /\ TimeColon = <<":">>
  /\ TimeDay \in NatTokens \cup {<<"-", "3">>} /\ TimeHour \in NatTokens /\ TimeMinute \in NatTokens
  /\ TimeEnd \in {<<>>, <<"\n">>}

PrefixShaped ==
  /\ TimePre = <<"D", "a", "y", " ">> /\ TimeSep \in {<<",", " ">>, <<",">>} /\ TimeColon = <<":">>
  /\ TimeDay \in IntPrefixTokens /\ TimeHour \in NatTokens /\ TimeMinute \in NatTokens

C15_DaysNonNegative ==
  (pfn = "parseGameTime" /\ pout.err = <<>>) => pout.gameTime.Days >= 0

\* ------------------------------------------------------------------------
\* Termination of an invocation
\* ------------------------------------------------------------------------

\* the most response lines that reach the client before the read deadline
MaxLiveBody == 2

\* t.conn.SetReadDeadline(time.Now().Add(timeout)) sets one absolute deadline
\* for the connection: however long the server goes on sending, only the
\* lines that arrive before the deadline are read, and the read after them
\* fails
LiveScripts ==
  {<<>>, <<"banner">>, <<"banner", "loginNo">>}
    \cup {<<"banner", "loginOK">> \o b : b \in SeqsUpTo(BodyLines, MaxLiveBody)}

NextLive == Step("c1", LiveScripts)

\* the goroutine of the invocation keeps running: the dial is bounded by its
\* timeout, a read by the deadline, and the writes are of a few bytes
SpecLive == Init /\ [][NextLive]_vars /\ WF_vars(NextLive)

\* C16: (the claim as stated) every invocation of GetPlayers or GetTime
\* eventually returns.
C16_EventuallyReturns == (pc["c1"] = "dial") ~> (pc["c1"] = "returned")

\* C16: (amended) every invocation of GetPlayers or GetTime eventually
\* returns or, when the login is rejected, ends the process: no server can
\* keep it waiting for the banner, the login line, the echo or the sentinel
\* for ever.
C16_ReturnsOrExits == (pc["c1"] = "dial") ~> (pc["c1"] = "returned" \/ proc = "exited")

\* the server sent lines that are neither the echo nor the sentinel until
\* the deadline, and the invocation has returned the read error
C16_Witness ==
  /\ pc["c1"] = "returned" /\ op["c1"] = "lp"
  /\ conns["c1"].script = <<"banner", "loginOK", "echoLp", "p1">>
  /\ ret["c1"].err = ErrRead


\* ------------------------------------------------------------------------
\* Properties of the API server's command handlers
\* ------------------------------------------------------------------------

ApiTypeOK ==
  /\ hreq \in {"none", "start", "stop", "restart", "summary"}
  /\ wg \in 0..3
  /\ served \in 0..MaxRequests
  /\ Len(runs) <= 2

\* the commands of the calls made for the request, in order
CommandsRun == [i \in 1..Len(runs) |-> runs[i].Command]

\* C17: POST /server/restart runs the stop command and then the start command,
\* in that order and once each: at every moment of the request the commands
\* run are a prefix of <<stop, start>>, and when the response is written both
\* have run, whatever the stop command returned; the response is 409 exactly
\* when the start command returned an error, and 200 otherwise.
C17_RestartStopThenStart ==
  hreq = "restart" =>
    /\ CommandsRun \in {<<>>, <<"StopCmd">>, <<"StopCmd", "StartCmd">>}
    /\ hpc = "done" =>
         /\ CommandsRun = <<"StopCmd", "StartCmd">>
         /\ resp.code = IF runs[2].err # Nil THEN 409 ELSE 200

\* a restart whose stop command failed and whose start command did not
C17_Witness ==
  /\ hreq = "restart" /\ hpc = "done"
  /\ runs[1].err # Nil /\ runs[1].res.ExitCode = 1
  /\ runs[2].err = Nil
  /\ resp.code = 200

\* ------------------------------------------------------------------------
\* Properties of GET /server/summary
\* ------------------------------------------------------------------------

allFetched == \A s \in Sources : probe[s].at = "done"

allFailed == \A s \in Sources : probe[s].got = "err"

someFailed == \E s \in Sources : probe[s].got = "err"

\* what the claim says of a response: written after the three fetches, 502
\* exactly when all three failed, otherwise 200 with partial exactly when one
\* of them failed
SummaryAnswer ==
  /\ allFetched
  /\ resp.code = IF allFailed THEN 502 ELSE 200
  /\ resp.code = 200 => (resp.partial <=> someFailed)

\* C18 as stated: every response of GET /server/summary is written after the
\* three fetches have finished, and is 502 exactly when all three failed and
\* otherwise 200 with meta.partial true exactly when at least one failed.
C18_EveryRequestFetches == (hreq = "summary" /\ hpc = "done") => SummaryAnswer

\* C18, amended: a request whose query parameters do not parse is answered 400
\* before anything is fetched; every other response of GET /server/summary is
\* written after the three concurrent fetches have finished, in whatever order
\* they ran, and is 502 exactly when all three failed and otherwise 200 with
\* meta.partial true exactly when at least one failed.
C18_ValidRequestFetches ==
  (hreq = "summary" /\ hpc = "done") =>
    IF resp.code = 400 THEN \A s \in Sources : probe[s] = NoProbe
    ELSE SummaryAnswer

\* a partial answer: serverstats failed and the other two did not
C18_Witness ==
  /\ hreq = "summary" /\ hpc = "done"
  /\ resp.code = 200 /\ resp.partial
  /\ probe["serverstats"].got = "err"
  /\ probe["player"].got = "ok" /\ probe["hostile"].got = "ok"

\* ------------------------------------------------------------------------
\* Properties of a failed start or stop command
\* ------------------------------------------------------------------------

\* the character a \uXXXX escape stands for, for the four the encoder writes
unicodeOf(hex) ==
  IF hex = <<"0", "0", "3", "c">> THEN "<"
  ELSE IF hex = <<"0", "0", "3", "e">> THEN ">"
  ELSE IF hex = <<"0", "0", "2", "6">> THEN "&"
  ELSE ReplacementChar

\* the character a two-character escape stands for
escapeOf(c) ==
  IF c = "n" THEN "\n" ELSE IF c = "r" THEN "\r" ELSE IF c = "t" THEN "\t" ELSE c

\* the characters a client's JSON decoder reads from the inside of a string
\* literal, from position i on
RECURSIVE unquoteFrom(_, _, _)
unquoteFrom(s, i, acc) ==
  IF i > Len(s) THEN acc
  ELSE IF s[i] # "\\" THEN unquoteFrom(s, i + 1, Append(acc, s[i]))
  ELSE IF s[i + 1] = "u" THEN unquoteFrom(s, i + 6, Append(acc, unicodeOf(SubSeq(s, i + 2, i + 5))))
  ELSE unquoteFrom(s, i + 2, Append(acc, escapeOf(s[i + 1])))

\* the string a client reads from a string literal of the body
jsonUnquote(literal) == unquoteFrom(SubSeq(literal, 2, Len(literal) - 1), 1, <<>>)

\* a start or stop request answered, whose command returned an error
CommandFailed == hreq \in {"start", "stop"} /\ hpc = "done" /\ runs # <<>> /\ runs[1].err # Nil

\* C19 as stated: when the runner returns an error for POST /server/start or
\* POST /server/stop, the response is 409 with error code COMMAND_FAILED, its
\* error.details.exec carries the run's exit code and the run's output
\* unchanged, and the runner was called once for the request.
C19_OutputUnchanged ==
  CommandFailed =>
    /\ resp.code = 409 /\ resp.errorCode = "COMMAND_FAILED"
    /\ resp.exec.ExitCode = runs[1].res.ExitCode
    /\ jsonUnquote(resp.exec.Output) = runs[1].res.Output
    /\ Len(runs) = 1

\* C19, amended: the response is 409 with error code COMMAND_FAILED, its
\* error.details.exec carries the run's exit code unchanged and the run's
\* output as JSON can carry it, every byte that is not valid UTF-8 replaced
\* by U+FFFD and the rest unchanged, and the runner was called once.
C19_OutputAsJSONCarriesIt ==
  CommandFailed =>
    /\ resp.code = 409 /\ resp.errorCode = "COMMAND_FAILED"
    /\ resp.message = runs[1].err
    /\ resp.exec.ExitCode = runs[1].res.ExitCode
    /\ jsonUnquote(resp.exec.Output) = toValidUTF8(runs[1].res.Output)
    /\ Len(runs) = 1

\* a stop command that failed with exit code 1 and an error text as output
C19_Witness ==
  /\ CommandFailed /\ hreq = "stop"
  /\ runs[1].res.ExitCode = 1
  /\ runs[1].res.Output = <<"o", "o", "p", "s", ":", " ", "p", "e", "r", "m", "i", "s", "s", "i", "o", "n", " ", "d", "e", "n", "i", "e", "d", "\n">>
  /\ jsonUnquote(resp.exec.Output) = <<"o", "o", "p", "s", ":", " ", "p", "e", "r", "m", "i", "s", "s", "i", "o", "n", " ", "d", "e", "n", "i", "e", "d", "\n">>

\* ------------------------------------------------------------------------
\* Properties of detectStartStatus
\* ------------------------------------------------------------------------

\* what each line is, read by eye: blank, a warning, one with the word
\* Started, one with the word Running and not Started, or none of these
StartLineClass ==
  [lEmpty     |-> "blank",
   lBlank     |-> "blank",
   lWarning   |-> "warning",
   lStarted   |-> "started",
   lLower     |-> "started",
   lBoth      |-> "started",
   lRunning   |-> "running",
   lUpper     |-> "running",
   lRestarted |-> "other",
   lCreating  |-> "other"]

ClassesOf(names) == {StartLineClass[names[i]] : i \in 1..Len(names)}

\* C20: detectStartStatus returns "started" when some line that is neither
\* blank nor a warning contains the word Started, whatever the other lines
\* say; "already_running" when none does and some such line contains the word
\* Running; "starting" otherwise, empty and warning-only outputs included; and
\* its note is empty exactly when it returns "starting".
C20_StartStatus ==
  pfn = "detectStartStatus" =>
    /\ pout.status = IF "started" \in ClassesOf(pin.fields) THEN "started"
                     ELSE IF "running" \in ClassesOf(pin.fields) THEN "already_running"
                     ELSE "starting"
    /\ pout.notes = <<>> <=> pout.status = "starting"

\* a Running line followed by a Started line: "started", the note being the
\* Started line
C20_Witness ==
  /\ pfn = "detectStartStatus"
  /\ pin.fields = <<"lRunning", "lStarted">>
  /\ pout.status = "started"
  /\ pout.notes = <<"C", "o", "n", "t", "a", "i", "n", "e", "r", " ", "7", "d", "t", "d", " ", " ", "S", "t", "a", "r", "t", "e", "d">>

\* ------------------------------------------------------------------------
\* Properties of detectStopStatus
\* ------------------------------------------------------------------------

\* what each line is, read by eye: blank, a warning, one with the word
\* Removed or Stopped, or another line
StopLineClass ==
  [lEmpty     |-> "blank",
   lBlank     |-> "blank",
   lWarning   |-> "warning",
   lRemoved   |-> "stopped",
   lStopped   |-> "stopped",
   lLower     |-> "stopped",
   lStopping  |-> "other",
   lUnstopped |-> "other"]

StopClassesOf(names) == {StopLineClass[names[i]] : i \in 1..Len(names)}

\* C21: detectStopStatus returns "stopped" exactly when some line that is
\* neither blank nor a warning contains the word Removed or Stopped;
\* "already_stopped" exactly when the output has no line that is neither blank
\* nor a warning; "stopping" in every other case; and its note is non-empty
\* only when it returns "stopped".
C21_StopStatus ==
  pfn = "detectStopStatus" =>
    /\ pout.status = "stopped" <=> "stopped" \in StopClassesOf(pin.fields)
    /\ pout.status = "already_stopped" <=> StopClassesOf(pin.fields) \subseteq {"blank", "warning"}
    /\ pout.status \in {"stopped", "already_stopped", "stopping"}
    /\ pout.notes # <<>> => pout.status = "stopped"

\* a Stopping line followed by a Removed line: "stopped", the note being the
\* Removed line
C21_Witness ==
  /\ pfn = "detectStopStatus"
  /\ pin.fields = <<"lStopping", "lRemoved">>
  /\ pout.status = "stopped"
  /\ pout.notes = <<"C", "o", "n", "t", "a", "i", "n", "e", "r", " ", "7", "d", "t", "d", " ", " ", "R", "e", "m", "o", "v", "e", "d">>

\* ------------------------------------------------------------------------
\* Properties of the state reported by GET /server/status
\* ------------------------------------------------------------------------

\* the state each line stands for, read by eye: Up before Restarting before
\* Paused or Exited, "unknown" for a line with none of the words
PsLineState ==
  [lEmpty      |-> "unknown",
   lWarning    |-> "running",
   lHeader     |-> "running",
   lUp         |-> "running",
   lOtherUp    |-> "running",
   lExited     |-> "stopped",
   lPaused     |-> "stopped",
   lUpPaused   |-> "running",
   lRestarting |-> "starting",
   lCreated    |-> "unknown"]

\* the lines that do not hold the text 7dtd, read by eye
PsLinesOfOthers == {"lEmpty", "lOtherUp"}

\* the positions of the lines that are neither a warning nor the header and
\* contain the service name (every line contains the empty name)
Deciding(names, service) ==
  {i \in 1..Len(names) :
     /\ names[i] \notin {"lWarning", "lHeader"}
     /\ service = <<>> \/ names[i] \notin PsLinesOfOthers}

FirstDeciding(names, service) ==
  CHOOSE i \in Deciding(names, service) : \A j \in Deciding(names, service) : i <= j

\* the state the first such line stands for, "unknown" without such a line
StateOfFirst(names, service) ==
  IF Deciding(names, service) = {} THEN "unknown"
  ELSE PsLineState[names[FirstDeciding(names, service)]]

\* C22 as stated: the state reported is decided by the first line of the
\* output that is neither a warning nor the header and that contains the
\* configured service name, and is "unknown" when there is no such line.
C22_FirstLineOfService ==
  pfn = "parseComposePS" => pout.status = StateOfFirst(pin.fields, pin.idx)

\* C22, amended: when the configured service name is blank the state is
\* "unknown" whatever the output; otherwise it is decided by the first line
\* that is neither a warning nor the header and that contains the service
\* name, and is "unknown" when there is no such line.
C22_FirstLineOfNamedService ==
  pfn = "parseComposePS" =>
    pout.status = IF pin.idx = <<>> THEN "unknown" ELSE StateOfFirst(pin.fields, pin.idx)

\* an Exited line of the service followed by an Up line of it: "stopped"
C22_Witness ==
  /\ pfn = "parseComposePS"
  /\ pin.idx = <<"7", "d", "t", "d">> /\ pin.fields = <<"lExited", "lUp">>
  /\ pout.status = "stopped"

\* ------------------------------------------------------------------------
\* Properties of the players' IP addresses in the summary
\* ------------------------------------------------------------------------

\* the pieces that are the octets of an IPv4 address, read by eye
Octets == {<<"2", "0", "3">>, <<"7">>, <<"8">>}

IsIPv4(parts) == Len(parts) = 4 /\ \A i \in 1..4 : parts[i] \in Octets

\* a player with an IP, in a summary asked with maskIPs true or left out
MaskedPlayer == pfn = "maskIP" /\ pin.idx \in {<<>>, <<"t", "r", "u", "e">>} /\ pin.line # <<>>

\* the ip emitted does not depend on the last octet: the same player with any
\* other last octet gets the same ip
LastOctetHidden ==
  (MaskedPlayer /\ IsIPv4(pin.fields)) =>
    \A o \in Octets : summaryIP(Join([pin.fields EXCEPT ![4] = o], <<".">>), TRUE) = pout.notes

\* C23: with maskIPs true, or absent, an IPv4 address a.b.c.d is emitted as
\* a.b.c.* and any other non-empty value as ***, and the ip emitted for two
\* addresses that differ only in the last octet is the same.
C23_FullIPNeverShown ==
  MaskedPlayer =>
    /\ pout.status = "200"
    /\ pout.notes = IF IsIPv4(pin.fields)
                    THEN pin.fields[1] \o <<".">> \o pin.fields[2] \o <<".">> \o pin.fields[3] \o <<".", "*">>
                    ELSE <<"*", "*", "*">>
    /\ LastOctetHidden


\* ------------------------------------------------------------------------
\* exec waits for the echo of its own command
\* ------------------------------------------------------------------------

\* the name of the echo line of caller c's command
OwnEcho(c) == IF op[c] = "lp" THEN "echoLp" ELSE "echoGt"

\* the lines caller c has read after the login that are the echo of its command
EchoesRead(c) == {i \in 3..conns[c].pos : conns[c].script[i] = OwnEcho(c)}

\* the command of caller c has been written on its connection
CmdWritten(c) == \E i \in 1..Len(conns[c].log) : conns[c].log[i] = <<op[c], c>>

\* the last event of connection c before the teardown began is a failed read
WaitEndedInReadError(c) ==
  \E i \in 1..Len(conns[c].log) :
    /\ conns[c].log[i] = <<"readerr", c>>
    /\ \A j \in (i + 1)..Len(conns[c].log) : Kind(c, j) \in {"exit", "close"}

ReadAttempts(c) ==
  Cardinality({i \in 1..Len(conns[c].log) : Kind(c, i) \in {"read", "readerr"}})

\* the line GetTime read after the echo at position e of its connection
LineAfterEcho(c, e) == Lines[conns[c].script[e + 1]]

\* C25: when GetTime has got past the gt echo and reached its teardown, it
\* has attempted exactly one read after the echo. If that read returned a
\* line starting with "Day " the invocation returns what parseGameTime
\* returns for that line; if it returned another line the invocation returns
\* the error "Failed to parse time" and a zero clock value, and the lines
\* after it stay unread.
C25_OneLineAfterEcho ==
  \A c \in AllCallers :
    (op[c] = "gt" /\ pc[c] \in {"exit", "close", "returned"} /\ EchoesRead(c) # {}) =>
      LET e == Nth(EchoesRead(c), 1)
      IN  /\ ReadAttempts(c) = e + 1
          /\ conns[c].pos <= e + 1
          /\ conns[c].pos = e + 1 =>
               IF HasPrefix(LineAfterEcho(c, e), <<"D", "a", "y", " ">>)
               THEN /\ ret[c].gameTime = parseGameTime(LineAfterEcho(c, e)).gameTime
                    /\ ret[c].err = parseGameTime(LineAfterEcho(c, e)).err
               ELSE /\ ret[c].gameTime = ZeroGameTime
                    /\ ret[c].err = <<"F", "a", "i", "l", "e", "d", " ", "t", "o", " ", "p", "a", "r", "s", "e", " ", "t", "i", "m", "e">>
          /\ conns[c].pos = e => ret[c].err = ErrRead

\* GetTime returned an error for the line after the echo although the clock
\* line followed it
C25_Witness ==
  /\ op["c1"] = "gt" /\ pc["c1"] = "returned"
  /\ conns["c1"].script = <<"banner", "loginOK", "echoGt", "p1", "day">>
  /\ conns["c1"].pos = 4
  /\ ret["c1"].err = <<"F", "a", "i", "l", "e", "d", " ", "t", "o", " ", "p", "a", "r", "s", "e", " ", "t", "i", "m", "e">>

\* ------------------------------------------------------------------------
\* Teardown
\* ------------------------------------------------------------------------

\* caller c's login was accepted on its connection
ReachedReady(c) ==
  /\ conns[c].pos >= 2
  /\ conns[c].script[2] = "loginOK"

\* the events of connection c end with the write of exit and the close, and
\* every read comes before them
ExitThenClose(c) ==
  LET n == Len(conns[c].log)
  IN  /\ n >= 2
      /\ Kind(c, n - 1) = "exit" /\ Kind(c, n) = "close"
      /\ \A i \in 1..(n - 2) : Kind(c, i) \notin {"exit", "close"}

\* the value and the error of an invocation's result
Outcome(r) == <<r.players, r.gameTime, r.err>>

\* C26: an invocation whose login was accepted, when it has returned, has
\* written exit after its last read and then closed the connection, whether
\* or not the write of exit failed; and from the moment the result is set no
\* step of the teardown (the write of exit, failed or not, the close, failed
\* or not) changes the value or the error returned.
C26_TeardownKeepsResult ==
  /\ [](\A c \in AllCallers :
          (pc[c] = "returned" /\ conns[c].dialed /\ ReachedReady(c)) =>
             ExitThenClose(c) /\ conns[c].closed = 1)
  /\ [][\A c \in AllCallers :
          pc[c] \in {"exit", "close"} => Outcome(ret'[c]) = Outcome(ret[c])]_vars

\* GetPlayers returned a record and no error although the write of exit and
\* the close both failed
C26_Witness ==
  /\ op["c1"] = "lp" /\ pc["c1"] = "returned" /\ ret["c1"].done
  /\ conns["c1"].exitFailed /\ conns["c1"].closeFailed
  /\ conns["c1"].closed = 1
  /\ Len(ret["c1"].players) = 1 /\ ret["c1"].err = <<>>

\* C27: whenever an invocation of GetPlayers or GetTime has returned, the
\* reader and the writer of the Telnet7days value are both nil.
C27_HandlesNilAfterReturn ==
  \A c \in AllCallers : pc[c] = "returned" => (t.r = Nil /\ t.w = Nil)

\* ------------------------------------------------------------------------
\* splitWithCommas keeps every character
\* ------------------------------------------------------------------------

\* the commas of s that separate fields: those with no "(" before them that
\* is not followed by a ")" before the comma
SeparatorCommas(s) ==
  {i \in 1..Len(s) :
     /\ s[i] = ","
     /\ \A j \in 1..(i - 1) : s[j] = "(" => \E k \in (j + 1)..(i - 1) : s[k] = ")"}

\* the piece of text that trimming reduces to the i-th of the fields f: the
\* part of text between the separators around it
PieceOf(text, seps, i) ==
  SubSeq(text, (IF i = 1 THEN 0 ELSE Nth(seps, i - 1)) + 1,
               (IF i = Cardinality(seps) + 1 THEN Len(text) + 1 ELSE Nth(seps, i)) - 1)

\* the fields f are as many as the separator commas of line and one more,
\* and they are, trimmed, the pieces of a sequence that joined with ","
\* gives text; the last of them is the trimmed text after the last separator
FieldsRejoinTo(f, line, text) ==
  LET seps   == SeparatorCommas(line)
      pieces == [i \in 1..(Cardinality(seps) + 1) |-> PieceOf(text, seps, i)]
  IN  /\ Len(f) = Cardinality(seps) + 1
      /\ Join(pieces, <<",">>) = text
      /\ \A i \in 1..Len(f) : f[i] = TrimSpace(pieces[i])
      /\ f[Len(f)] = TrimSpace(SubSeq(text, (IF seps = {} THEN 0
                                             ELSE Nth(seps, Cardinality(seps))) + 1,
                                      Len(text)))

\* C28: (the claim as stated) splitWithCommas returns, for every line, one
\* field more than the line has separator commas, the last field included,
\* and the fields joined with "," give the line back up to the whitespace
\* trimmed from each field.
C28_RejoinGivesLine ==
  pfn = "splitWithCommas" =>
    pout.err = <<>> /\ FieldsRejoinTo(pout.fields, pin.line, pin.line)

\* C28: (amended) splitWithCommas returns, for every line, one field more
\* than the line has separator commas, the last field included, and the
\* fields joined with "," give back, up to the whitespace trimmed from each
\* field, the line with every byte that is not UTF-8 replaced by U+FFFD.
C28_RejoinGivesDecodedLine ==
  pfn = "splitWithCommas" =>
    pout.err = <<>> /\ FieldsRejoinTo(pout.fields, pin.line, toValidUTF8(pin.line))

\* a line with an invalid byte, a "(" never closed and a comma at its end
C28_Witness ==
  /\ pfn = "splitWithCommas"
  /\ pin.line = <<BadByte, ",", "(", "a", ",">>
  /\ pout.fields = << <<ReplacementChar>>, <<"(", "a", ",">> >>

\* ------------------------------------------------------------------------
\* The Discord bot
\* ------------------------------------------------------------------------

BotTypeOK ==
  /\ now \in 0..MaxTime
  /\ bot.lastTopic \in {""} \cup {topicOf(st) : st \in Statuses}
  /\ \A g \in Loops : loops[g].pc \in {"none", "status", "guard", "compare", "edit",
                                       "store", "stamp", "ticker", "wait"}

\* the last call of ChannelEditComplex that succeeded, NoEdit when none has
LastOK == IF edits.last.ok THEN edits.last ELSE edits.okBefore

\* no goroutine is between a successful edit and the two assignments
NoneStoring == \A g \in Loops : loops[g].pc \notin {"store", "stamp"}

InUpdate(g) == loops[g].pc \in {"status", "guard", "compare", "edit", "store", "stamp"}

\* C30: at most one ticker loop has been started, and update is executing in
\* at most one goroutine, whatever number of Ready events were delivered.
C30_OneUpdateAtATime ==
  /\ Cardinality({g \in Loops : loops[g].ticking}) <= 1
  /\ Cardinality({g \in Loops : InUpdate(g)}) <= 1
====
